---- MODULE Spec2Model ----
(***************************************************************************)
(* cachydb (package db): the in-memory collection with its hash indexes    *)
(* and query engine, and the storage manager's binary collection file.     *)
(*                                                                         *)
(* Go strings are modelled as tuples of one-character strings, so that     *)
(* fmt.Sprintf("%v", v) is computed (the number 1 and the string "1" have  *)
(* the same stringified form <<"1">>) and strings.Compare is the           *)
(* lexicographic order on character codes.                                 *)
(***************************************************************************)
EXTENDS Integers, Sequences, FiniteSets, TLC

\* ------------------------------------------------------------------ bounds
\* The collection holds at most MaxDocs documents (guard of Insert).
MaxDocs == 2
\* SaveCollection is called at most MaxSaves times (guard of SaveCollection).
MaxSaves == 2
\* At most MaxDamage bytes of collection.data are damaged (guard of Corrupt).
MaxDamage == 1
\* No collection.data of the model is longer than MaxFileLen bytes.
MaxFileLen == 60

\* ------------------------------------------------------------------ values
\* A JSON value is <<type, payload>>; Absent stands for "key not in the map".
Absent == <<"absent", <<>>>>
Num(n) == <<"number", n>>
Str(s) == <<"string", s>>

DigitChar(d) == <<"0", "1", "2", "3", "4", "5", "6", "7", "8", "9">>[d + 1]

RECURSIVE DecStr(_)
DecStr(n) == IF n < 10 THEN <<DigitChar(n)>>
             ELSE DecStr(n \div 10) \o <<DigitChar(n % 10)>>

\* fmt.Sprintf("%v", value): scalars print literally, a []any prints as
\* "[" + the elements' forms separated by one space + "]".
RECURSIVE Stringify(_)
RECURSIVE JoinStr(_)
JoinStr(items) ==
    IF items = <<>> THEN <<>>
    ELSE IF Len(items) = 1 THEN Stringify(items[1])
    ELSE Stringify(items[1]) \o <<" ">> \o JoinStr(Tail(items))

Stringify(v) ==
    CASE v[1] = "number" -> DecStr(v[2])
      [] v[1] = "string" -> v[2]
      [] v[1] = "boolean" -> IF v[2] THEN <<"t", "r", "u", "e">>
                                     ELSE <<"f", "a", "l", "s", "e">>
      [] v[1] = "array" -> <<"[">> \o JoinStr(v[2]) \o <<"]">>
      [] OTHER -> <<"<", "n", "i", "l", ">">>

\* ASCII codes of the characters the model's strings are made of.
CharCode(c) ==
    CASE c = "0" -> 48 [] c = "1" -> 49 [] c = "2" -> 50 [] c = "3" -> 51
      [] c = "4" -> 52 [] c = "5" -> 53 [] c = "6" -> 54 [] c = "7" -> 55
      [] c = "8" -> 56 [] c = "9" -> 57 [] c = "<" -> 60 [] c = ">" -> 62
      [] c = "a" -> 97 [] c = "b" -> 98 [] c = "e" -> 101 [] c = "f" -> 102
      [] c = "i" -> 105 [] c = "l" -> 108 [] c = "n" -> 110 [] c = "r" -> 114
      [] c = "s" -> 115 [] c = "t" -> 116 [] c = "u" -> 117 [] c = "x" -> 120
      [] c = "y" -> 121 [] c = " " -> 32 [] c = "[" -> 91 [] c = "]" -> 93

\* strings.Compare(a, b): -1, 0 or 1 by the lexicographic order of the bytes.
RECURSIVE StringsCompare(_, _)
StringsCompare(a, b) ==
    IF a = <<>> /\ b = <<>> THEN 0
    ELSE IF a = <<>> THEN -1
    ELSE IF b = <<>> THEN 1
    ELSE IF CharCode(Head(a)) < CharCode(Head(b)) THEN -1
    ELSE IF CharCode(Head(a)) > CharCode(Head(b)) THEN 1
    ELSE StringsCompare(Tail(a), Tail(b))

\* ---------------------------------------------------------------- documents
Fields == {"f"}
EmptyID == <<>>
IdA == <<"a">>
IdB == <<"b">>
\* What uuid.New().String() may return.
UUIDs == {<<"u">>}
UserIDs == {IdA, IdB}
IDs == UserIDs \cup UUIDs

\* The values of field f: a number, and two strings, one of which prints like
\* the number.
FValues == {Num(1), Str(<<"1">>), Str(<<"x">>)}
\* The values whose stringified form is "1".
OneValues == {Num(1), Str(<<"1">>)}

\* *Document; nil is the nil pointer.
NilDoc == [nil |-> TRUE, ID |-> EmptyID, Data |-> [k \in Fields |-> Absent]]
Doc(id, data) == [nil |-> FALSE, ID |-> id, Data |-> data]

\* Document.GetValue(key): <<value, exists>>; the reserved key _id reads the id.
GetValue(doc, key) ==
    IF key = "_id" THEN <<Str(doc.ID), TRUE>>
    ELSE IF key \in DOMAIN doc.Data /\ doc.Data[key] # Absent
         THEN <<doc.Data[key], TRUE>>
         ELSE <<Absent, FALSE>>

\* Document.Clone(): a deep copy (values are immutable here).
Clone(doc) == [nil |-> FALSE, ID |-> doc.ID, Data |-> doc.Data]

\* ------------------------------------------------------------------- maps
\* Go map operations on a function with a finite domain.
MapPut(m, k, v) == [x \in DOMAIN m \cup {k} |-> IF x = k THEN v ELSE m[x]]
MapDelete(m, k) == [x \in DOMAIN m \ {k} |-> m[x]]
EmptyMap == [x \in {} |-> 0]

\* All orders in which a Go map with key set S may be iterated.
RECURSIVE Perms(_)
Perms(S) == IF S = {} THEN {<<>>}
            ELSE UNION {{<<x>> \o p : p \in Perms(S \ {x})} : x \in S}

\* ------------------------------------------------------------------ schema
NilSchema == [nil |-> TRUE, Fields |-> EmptyMap]
\* users-like schema: a required string field f.
SchemaReqF == [nil |-> FALSE,
               Fields |-> [k \in {"f"} |-> [Type |-> "string", Required |-> TRUE]]]
Schemas == {NilSchema, SchemaReqF}

\* time.Parse(time.RFC3339, s) succeeds: none of the model's strings is a timestamp.
IsRFC3339(s) == FALSE

\* ValidateType(value, fieldType)
ValidateType(value, type) ==
    CASE type = "string" -> value[1] = "string"
      [] type = "number" -> value[1] = "number"
      [] type = "boolean" -> value[1] = "boolean"
      [] type = "object" -> value[1] = "object"
      [] type = "array" -> value[1] = "array"
      [] type = "date" -> value[1] = "string" /\ IsRFC3339(value[2])
      [] OTHER -> FALSE

\* ValidateDocument that checks the required fields and no type.
ValidateDocumentNoTypes(s, doc) ==
    IF s.nil THEN {}
    ELSE {e \in (DOMAIN s.Fields) \X {"missing"} :
            s.Fields[e[1]].Required /\ ~GetValue(doc, e[1])[2]}

\* Schema.ValidateDocument(doc): the errors the loop over s.Fields can return
\* (it returns at the first failing field of a random iteration order); the empty
\* set is the nil error.
ValidateDocument(s, doc) ==
    IF s.nil THEN {}
    ELSE {e \in (DOMAIN s.Fields) \X {"missing", "type"} :
            LET field == s.Fields[e[1]]
                got == GetValue(doc, e[1])
            IN  \/ e[2] = "missing" /\ field.Required /\ ~got[2]
                \/ e[2] = "type" /\ got[2] /\ ~ValidateType(got[1], field.Type)}

\* ------------------------------------------------------------------- index
\* NewIndex(name, fieldName)
NewIndex(name, fieldName) == [Name |-> name, FieldName |-> fieldName, Data |-> EmptyMap]

\* AddToIndex that skips the reserved field _id.
AddToIndexSkipsID(idx, doc) ==
    LET got == GetValue(doc, idx.FieldName)
    IN  IF ~got[2] \/ idx.FieldName = "_id" THEN idx
        ELSE [idx EXCEPT !.Data = MapPut(idx.Data, Stringify(got[1]), doc.ID)]

\* AddToIndex that keeps the entry a key already has.
AddToIndexKeepsFirst(idx, doc) ==
    LET got == GetValue(doc, idx.FieldName)
    IN  IF ~got[2] \/ Stringify(got[1]) \in DOMAIN idx.Data THEN idx
        ELSE [idx EXCEPT !.Data = MapPut(idx.Data, Stringify(got[1]), doc.ID)]

\* Index.AddToIndex(doc)
AddToIndex(idx, doc) ==
    LET got == GetValue(doc, idx.FieldName)
    IN  IF ~got[2] THEN idx
        ELSE [idx EXCEPT !.Data = MapPut(idx.Data, Stringify(got[1]), doc.ID)]

\* Index.RemoveFromIndex(doc)
RemoveFromIndex(idx, doc) ==
    LET got == GetValue(doc, idx.FieldName)
    IN  IF ~got[2] THEN idx
        ELSE [idx EXCEPT !.Data = MapDelete(idx.Data, Stringify(got[1]))]

\* Index.Find(value): <<docID, found>>
IndexFind(idx, value) ==
    LET key == Stringify(value)
    IN  IF key \in DOMAIN idx.Data THEN <<idx.Data[key], TRUE>>
        ELSE <<EmptyID, FALSE>>

\* Collection.updateIndexes(oldDoc, newDoc): AddToIndex and RemoveFromIndex never
\* return an error, so neither does this loop; each index is updated on its own.
updateIndexes(indexes, oldDoc, newDoc) ==
    [n \in DOMAIN indexes |->
        LET removed == IF ~oldDoc.nil THEN RemoveFromIndex(indexes[n], oldDoc)
                       ELSE indexes[n]
        IN  IF ~newDoc.nil THEN AddToIndex(removed, newDoc) ELSE removed]

\* NewCollection(name, schema): no documents and the automatic _id index.
NewCollectionIndexes == [n \in {"_id"} |-> NewIndex("_id", "_id")]

\* -------------------------------------------------------------- query engine
Filter(field, op, value) == [Field |-> field, Operator |-> op, Value |-> value]
Query(filters, limit, skip) == [Filters |-> filters, Limit |-> limit, Skip |-> skip]

\* compareValues(a, b)
compareValues(a, b) == StringsCompare(Stringify(a), Stringify(b))

\* matchesFilter(doc, filter)
matchesFilter(doc, filter) ==
    LET got == GetValue(doc, filter.Field)
        value == got[1]
    IN  IF ~got[2] THEN FALSE
        ELSE CASE filter.Operator = "eq" -> Stringify(value) = Stringify(filter.Value)
               [] filter.Operator = "ne" -> Stringify(value) # Stringify(filter.Value)
               [] filter.Operator = "gt" -> compareValues(value, filter.Value) > 0
               [] filter.Operator = "gte" -> compareValues(value, filter.Value) >= 0
               [] filter.Operator = "lt" -> compareValues(value, filter.Value) < 0
               [] filter.Operator = "lte" -> compareValues(value, filter.Value) <= 0
               [] filter.Operator = "in" ->
                    /\ filter.Value[1] = "array"
                    /\ \E i \in 1..Len(filter.Value[2]) :
                          Stringify(filter.Value[2][i]) = Stringify(value)
               [] OTHER -> FALSE

\* matchesAllFilters(doc, filters)
matchesAllFilters(doc, filters) ==
    \A i \in 1..Len(filters) : matchesFilter(doc, filters[i])

\* The loop of Find over c.Indexes, taken in the order `names`: the first index on
\* the filter's field decides, unless its hit is an id no longer in Documents.
RECURSIVE FindIndexLoop(_, _, _, _)
FindIndexLoop(docs, indexes, names, firstFilter) ==
    IF names = <<>> THEN [kind |-> "scan", id |-> EmptyID]
    ELSE LET idx == indexes[Head(names)]
             hit == IndexFind(idx, firstFilter.Value)
         IN  IF idx.FieldName # firstFilter.Field
             THEN FindIndexLoop(docs, indexes, Tail(names), firstFilter)
             ELSE IF hit[2]
                  THEN IF hit[1] \in DOMAIN docs
                       THEN [kind |-> "hit", id |-> hit[1]]
                       ELSE FindIndexLoop(docs, indexes, Tail(names), firstFilter)
                  ELSE [kind |-> "miss", id |-> EmptyID]

\* The documents of `order` that match all filters, cloned, in that order.
RECURSIVE FilterDocs(_, _, _)
FilterDocs(docs, order, filters) ==
    IF order = <<>> THEN <<>>
    ELSE (IF matchesAllFilters(docs[Head(order)], filters)
          THEN <<Clone(docs[Head(order)])>> ELSE <<>>)
         \o FilterDocs(docs, Tail(order), filters)

\* The skip and limit step with the limit taken first.
SkipLimitLimitFirst(results, query) ==
    LET cut == IF query.Limit > 0 /\ query.Limit < Len(results)
               THEN SubSeq(results, 1, query.Limit)
               ELSE results
    IN  IF query.Skip > 0
        THEN IF query.Skip >= Len(cut) THEN <<>>
             ELSE SubSeq(cut, query.Skip + 1, Len(cut))
        ELSE cut

\* The skip and limit step at the end of Find.
SkipLimit(results, query) ==
    LET skipped == IF query.Skip > 0
                   THEN IF query.Skip >= Len(results) THEN <<>>
                        ELSE SubSeq(results, query.Skip + 1, Len(results))
                   ELSE results
    IN  IF query.Limit > 0 /\ query.Limit < Len(skipped)
        THEN SubSeq(skipped, 1, query.Limit)
        ELSE skipped

\* Collection.Find(query): every list the call can return, over the iteration
\* orders of the Documents and Indexes maps.
FindOutcomes(docs, indexes, query) ==
    LET scans == {SkipLimit(FilterDocs(docs, order, query.Filters), query) :
                     order \in Perms(DOMAIN docs)}
    IN  IF Len(query.Filters) = 0 THEN scans
        ELSE IF query.Filters[1].Operator = "eq"
        THEN UNION {LET r == FindIndexLoop(docs, indexes, names, query.Filters[1])
                    IN  CASE r.kind = "miss" -> {<<>>}
                          [] r.kind = "hit" ->
                               {SkipLimit(FilterDocs(docs, <<r.id>>, query.Filters), query)}
                          [] OTHER -> scans
                    : names \in Perms(DOMAIN indexes)}
        ELSE scans

\* -------------------------------------------------------------------- state
VARIABLES
    Documents,   \* Collection.Documents: id -> *Document
    Indexes,     \* Collection.Indexes: name -> *Index
    Schema,      \* Collection.Schema (nil when the collection has none)
    ret,         \* the last call: its name, its arguments and what it returned
    metaFile,    \* <root>/<db>/<coll>/collection.meta.json
    dataFile,    \* <root>/<db>/<coll>/collection.data
    idxFile,     \* <root>/<db>/<coll>/collection.idx
    indexFiles,  \* <root>/<db>/<coll>/indexes/<name>.json: name -> IndexData
    saves,       \* the number of SaveCollection calls so far
    wal,         \* <root>/wal/: the records appended and the checkpoint offset
    Collections, \* Database.Collections: name -> the schema of the collection
    ctx,         \* the context handed to the tool handlers: "live" or "cancelled"
    pc,          \* thread -> the call it is in and the step it is at
    locks,       \* mutex -> the threads that hold it and the writers that wait
    held         \* what the caller holds: pointers to stored documents, and copies

coll == <<Documents, Indexes, Schema>>
disk == <<metaFile, dataFile, idxFile, indexFiles, saves>>
rest == <<wal, Collections, ctx, pc, locks, held>>
vars == <<Documents, Indexes, Schema, ret, metaFile, dataFile, idxFile, indexFiles,
          saves, wal, Collections, ctx, pc, locks, held>>

\* ------------------------------------------------------------------- inputs
IndexNames == {"_id", "i1"}
TwoIndexNames == {"_id", "i1", "i2"}
IndexFields == Fields
\* The documents callers insert, with field values drawn from `values`.
InsertDocsOf(values) ==
    {Doc(id, data) : id \in UserIDs \cup {EmptyID},
                     data \in [Fields -> values \cup {Absent}]}
\* The update maps callers pass: any non-empty set of keys among the fields and _id.
UpdateMapsOf(values) ==
    UNION {{u \in [keys -> values \cup {Str(IdB)}] :
               \A k \in keys : (k = "_id") <=> (u[k] = Str(IdB))} :
           keys \in (SUBSET (Fields \cup {"_id"})) \ {{}}}
Filters == {Filter("f", "eq", Num(1)), Filter("f", "eq", Str(<<"x">>)),
            Filter("f", "gte", Str(<<"1">>)), Filter("_id", "eq", Str(IdA))}
NoQuery == Query(<<>>, 0, 0)
Queries == {Query(<<>>, l, s) : l \in 0..1, s \in 0..1}
           \cup {Query(<<x>>, 0, 0) : x \in Filters}
           \cup {Query(<<x, y>>, 0, 0) :
                    x \in {Filter("f", "eq", Num(1))},
                    y \in {Filter("_id", "eq", Str(IdA))}}

Ret(op, err) == [op |-> op, err |-> err, id |-> EmptyID, query |-> NoQuery,
                 result |-> <<>>]

\* An empty log, a database without collections, a live context, no thread in a
\* call and every mutex free.
NoWAL == [entries |-> <<>>, checkpoint |-> 0]
NoHeld == [refs |-> {}, copies |-> {}]
Idle ==
    /\ wal = NoWAL
    /\ Collections = EmptyMap
    /\ ctx = "live"
    /\ pc = EmptyMap
    /\ locks = EmptyMap
    /\ held = NoHeld

Init ==
    /\ Idle
    /\ Documents = EmptyMap
    /\ Indexes = NewCollectionIndexes
    /\ Schema \in Schemas
    /\ ret = Ret("NewCollection", "")
    /\ metaFile = [exists |-> FALSE, Schema |-> NilSchema, Indexes |-> EmptyMap,
                   Format |-> ""]
    /\ dataFile = [exists |-> FALSE, bytes |-> <<>>]
    /\ idxFile = [exists |-> FALSE, records |-> {}]
    /\ indexFiles = EmptyMap
    /\ saves = 0

\* ------------------------------------------------------------------ actions
\* Insert without the "already exists" check.
InsertOverwrites(doc) ==
    \E id \in (IF doc.ID = EmptyID THEN UUIDs ELSE {doc.ID}) :
        LET d == [doc EXCEPT !.ID = id]
            r == [Ret("Insert", "") EXCEPT !.id = id]
        IN  IF ValidateDocument(Schema, d) # {}
            THEN /\ ret' = [r EXCEPT !.err = "schema"]
                 /\ UNCHANGED <<Documents, Indexes, Schema>>
            ELSE /\ Cardinality(DOMAIN Documents \cup {id}) <= MaxDocs
                 /\ Documents' = MapPut(Documents, id, d)
                 /\ Indexes' = updateIndexes(Indexes, NilDoc, d)
                 /\ ret' = r
                 /\ UNCHANGED Schema

\* Insert that never generates an id.
InsertNoUUID(doc) ==
    LET id == doc.ID
        r == [Ret("Insert", "") EXCEPT !.id = id]
    IN  IF id \in DOMAIN Documents
        THEN /\ ret' = [r EXCEPT !.err = "exists"]
             /\ UNCHANGED <<Documents, Indexes, Schema>>
        ELSE IF ValidateDocument(Schema, doc) # {}
        THEN /\ ret' = [r EXCEPT !.err = "schema"]
             /\ UNCHANGED <<Documents, Indexes, Schema>>
        ELSE /\ Cardinality(DOMAIN Documents) < MaxDocs
             /\ Documents' = MapPut(Documents, id, doc)
             /\ Indexes' = updateIndexes(Indexes, NilDoc, doc)
             /\ ret' = r
             /\ UNCHANGED Schema

\* Collection.Insert(doc)
Insert(doc) ==
    \E id \in (IF doc.ID = EmptyID THEN UUIDs ELSE {doc.ID}) :
        LET d == [doc EXCEPT !.ID = id]
            r == [Ret("Insert", "") EXCEPT !.id = id]
        IN  IF id \in DOMAIN Documents
            THEN /\ ret' = [r EXCEPT !.err = "exists"]
                 /\ UNCHANGED <<Documents, Indexes, Schema>>
            ELSE IF ValidateDocument(Schema, d) # {}
            THEN /\ ret' = [r EXCEPT !.err = "schema"]
                 /\ UNCHANGED <<Documents, Indexes, Schema>>
            ELSE /\ Cardinality(DOMAIN Documents) < MaxDocs
                 /\ Documents' = MapPut(Documents, id, d)
                 /\ Indexes' = updateIndexes(Indexes, NilDoc, d)
                 /\ ret' = r
                 /\ UNCHANGED Schema

\* What Collection.FindByID(id) returns on docs: <<the clone>>, or <<>> with an error.
FindByIDResult(docs, id) ==
    IF id \in DOMAIN docs THEN <<Clone(docs[id])>> ELSE <<>>

\* Collection.FindByID(id)
FindByID(id) ==
    /\ ret' = [Ret("FindByID", IF id \in DOMAIN Documents THEN "" ELSE "notfound")
                 EXCEPT !.id = id, !.result = FindByIDResult(Documents, id)]
    /\ UNCHANGED <<Documents, Indexes, Schema>>

\* Collection.Find(query)
Find(query) ==
    /\ \E result \in FindOutcomes(Documents, Indexes, query) :
          ret' = [Ret("Find", "") EXCEPT !.query = query, !.result = result]
    /\ UNCHANGED <<Documents, Indexes, Schema>>

\* The loop "for key, value := range updates { doc.Data[key] = value }" over `keys`.
ApplyUpdates(doc, updates, keys) ==
    [doc EXCEPT !.Data = [k \in DOMAIN doc.Data \cup keys |->
                             IF k \in keys THEN updates[k] ELSE doc.Data[k]]]

\* Update without the rollback "c.Documents[id] = oldDoc" after a failed validation.
UpdateNoRollback(id, updates) ==
    LET r == [Ret("Update", "") EXCEPT !.id = id]
    IN  IF id \notin DOMAIN Documents
        THEN /\ ret' = [r EXCEPT !.err = "notfound"]
             /\ UNCHANGED <<Documents, Indexes, Schema>>
        ELSE LET doc == Documents[id]
                 oldDoc == Clone(doc)
                 newDoc == ApplyUpdates(doc, updates, DOMAIN updates)
             IN  IF "_id" \in DOMAIN updates
                 THEN /\ \E before \in SUBSET (DOMAIN updates \ {"_id"}) :
                            Documents' = MapPut(Documents, id,
                                                ApplyUpdates(doc, updates, before))
                      /\ ret' = [r EXCEPT !.err = "_id"]
                      /\ UNCHANGED <<Indexes, Schema>>
                 ELSE IF ValidateDocument(Schema, newDoc) # {}
                 THEN /\ Documents' = MapPut(Documents, id, newDoc)
                      /\ ret' = [r EXCEPT !.err = "schema"]
                      /\ UNCHANGED <<Indexes, Schema>>
                 ELSE /\ Documents' = MapPut(Documents, id, newDoc)
                      /\ Indexes' = updateIndexes(Indexes, oldDoc, newDoc)
                      /\ ret' = r
                      /\ UNCHANGED Schema

\* Collection.Update(id, updates). The document is changed in place, key by key in
\* the map's iteration order; the key _id returns at once, with the keys met before
\* it already applied.
Update(id, updates) ==
    LET r == [Ret("Update", "") EXCEPT !.id = id]
    IN  IF id \notin DOMAIN Documents
        THEN /\ ret' = [r EXCEPT !.err = "notfound"]
             /\ UNCHANGED <<Documents, Indexes, Schema>>
        ELSE LET doc == Documents[id]
                 oldDoc == Clone(doc)
                 newDoc == ApplyUpdates(doc, updates, DOMAIN updates)
             IN  IF "_id" \in DOMAIN updates
                 THEN /\ \E before \in SUBSET (DOMAIN updates \ {"_id"}) :
                            Documents' = MapPut(Documents, id,
                                                ApplyUpdates(doc, updates, before))
                      /\ ret' = [r EXCEPT !.err = "_id"]
                      /\ UNCHANGED <<Indexes, Schema>>
                 ELSE IF ValidateDocument(Schema, newDoc) # {}
                 THEN /\ Documents' = MapPut(MapPut(Documents, id, newDoc), id, oldDoc)
                      /\ ret' = [r EXCEPT !.err = "schema"]
                      /\ UNCHANGED <<Indexes, Schema>>
                 ELSE /\ Documents' = MapPut(Documents, id, newDoc)
                      /\ Indexes' = updateIndexes(Indexes, oldDoc, newDoc)
                      /\ ret' = r
                      /\ UNCHANGED Schema

\* Delete that reports success for an id that is not stored.
DeleteMissingOk(id) ==
    LET r == [Ret("Delete", "") EXCEPT !.id = id]
    IN  IF id \notin DOMAIN Documents
        THEN /\ ret' = r
             /\ UNCHANGED <<Documents, Indexes, Schema>>
        ELSE /\ Indexes' = updateIndexes(Indexes, Documents[id], NilDoc)
             /\ Documents' = MapDelete(Documents, id)
             /\ ret' = r
             /\ UNCHANGED Schema

\* Collection.Delete(id)
Delete(id) ==
    LET r == [Ret("Delete", "") EXCEPT !.id = id]
    IN  IF id \notin DOMAIN Documents
        THEN /\ ret' = [r EXCEPT !.err = "notfound"]
             /\ UNCHANGED <<Documents, Indexes, Schema>>
        ELSE /\ Indexes' = updateIndexes(Indexes, Documents[id], NilDoc)
             /\ Documents' = MapDelete(Documents, id)
             /\ ret' = r
             /\ UNCHANGED Schema

\* Collection.Count()
Count == Cardinality(DOMAIN Documents)

\* CreateIndex without the scan of the stored documents.
BuildIndexEmpty(docs, idx) == {idx}

\* The loop of CreateIndex over c.Documents: every index it can build, over the
\* iteration orders of the map.
BuildIndex(docs, idx) ==
    LET RECURSIVE AddAll(_, _)
        AddAll(i, order) == IF order = <<>> THEN i
                            ELSE AddAll(AddToIndex(i, docs[Head(order)]), Tail(order))
    IN  {AddAll(idx, order) : order \in Perms(DOMAIN docs)}

\* CreateIndex that replaces an index of the same name.
CreateIndexReplaces(indexName, fieldName) ==
    /\ \E idx \in BuildIndex(Documents, NewIndex(indexName, fieldName)) :
          Indexes' = MapPut(Indexes, indexName, idx)
    /\ ret' = Ret("CreateIndex", "")
    /\ UNCHANGED <<Documents, Schema>>

\* Collection.CreateIndex(indexName, fieldName)
CreateIndex(indexName, fieldName) ==
    LET r == Ret("CreateIndex", "")
    IN  IF indexName \in DOMAIN Indexes
        THEN /\ ret' = [r EXCEPT !.err = "exists"]
             /\ UNCHANGED <<Documents, Indexes, Schema>>
        ELSE /\ \E idx \in BuildIndex(Documents, NewIndex(indexName, fieldName)) :
                   Indexes' = MapPut(Indexes, indexName, idx)
             /\ ret' = r
             /\ UNCHANGED <<Documents, Schema>>

\* DropIndex without the test for the reserved name.
DropIndexAny(indexName) ==
    LET r == Ret("DropIndex", "")
    IN  IF indexName \notin DOMAIN Indexes
        THEN /\ ret' = [r EXCEPT !.err = "notfound"]
             /\ UNCHANGED <<Documents, Indexes, Schema>>
        ELSE /\ Indexes' = MapDelete(Indexes, indexName)
             /\ ret' = r
             /\ UNCHANGED <<Documents, Schema>>

\* Collection.DropIndex(indexName)
DropIndex(indexName) ==
    LET r == Ret("DropIndex", "")
    IN  IF indexName = "_id"
        THEN /\ ret' = [r EXCEPT !.err = "reserved"]
             /\ UNCHANGED <<Documents, Indexes, Schema>>
        ELSE IF indexName \notin DOMAIN Indexes
        THEN /\ ret' = [r EXCEPT !.err = "notfound"]
             /\ UNCHANGED <<Documents, Indexes, Schema>>
        ELSE /\ Indexes' = MapDelete(Indexes, indexName)
             /\ ret' = r
             /\ UNCHANGED <<Documents, Schema>>

\* ----------------------------------------------------------------- storage
\* One database with one collection, saved by a StorageManager whose Format is
\* FormatBinary (what NewStorageManager sets). A file is its bytes; the bytes of
\* collection.data are tokens: B(n) for a byte of a fixed-width integer, one token
\* per checksum byte and one per unit of compressed payload.
CollectionMagic == 1128350536
BinaryFormatVersion == 1
HeaderSize == 8
DocEntryHeaderSize == 20

B(n) == <<"b", n>>
\* binary.LittleEndian.PutUint16/32/64: the width low bytes of n, lowest first.
RECURSIVE LittleEndian(_, _)
LittleEndian(n, width) ==
    IF width = 0 THEN <<>> ELSE <<B(n % 256)>> \o LittleEndian(n \div 256, width - 1)

\* crc32.ChecksumIEEE(data), as a value equal for equal data only (the collisions
\* of the 32-bit sum are left out), and its four bytes.
ChecksumIEEE(data) == <<"crc32", data>>
ChecksumBytes(sum) == [i \in 1..4 |-> <<"c", i, sum>>]

\* The order in which a document's fields are written by MarshalJSON.
FieldOrder == <<"f">>
\* Document.MarshalJSON: _id beside the data fields, one token per member.
MarshalJSON(doc) ==
    LET RECURSIVE Members(_)
        Members(fs) ==
            IF fs = <<>> THEN <<>>
            ELSE (IF doc.Data[Head(fs)] = Absent THEN <<>>
                  ELSE <<<<"m", Head(fs), doc.Data[Head(fs)]>>>>) \o Members(Tail(fs))
    IN  <<<<"m", "_id", Str(doc.ID)>>>> \o Members(FieldOrder)

\* Document.UnmarshalJSON: [ok, doc].
UnmarshalJSON(json) ==
    LET isMember(t) == Len(t) = 3 /\ t[1] = "m"
        ok == \A i \in 1..Len(json) : isMember(json[i])
        valueOf(k) == LET at == {i \in 1..Len(json) : json[i][2] = k}
                      IN  IF at = {} THEN Absent
                          ELSE json[CHOOSE i \in at : \A j \in at : j <= i][3]
    IN  IF ok /\ valueOf("_id")[1] = "string"
        THEN [ok |-> TRUE,
              doc |-> Doc(valueOf("_id")[2], [f \in Fields |-> valueOf(f)])]
        ELSE [ok |-> FALSE, doc |-> NilDoc]

\* Compress(data): a stream header and one unit per unit of input.
Compress(data) == <<<<"zh", Len(data)>>>> \o [i \in 1..Len(data) |-> <<"z", data[i]>>]
\* Decompress(data): [ok, data].
Decompress(data) ==
    LET ok == /\ Len(data) >= 1
              /\ data[1][1] = "zh"
              /\ data[1][2] = Len(data) - 1
              /\ \A i \in 2..Len(data) : data[i][1] = "z"
    IN  IF ok THEN [ok |-> TRUE, data |-> [i \in 1..(Len(data) - 1) |-> data[i + 1][2]]]
        ELSE [ok |-> FALSE, data |-> <<>>]

\* File.Write of data at position pos of a file holding bytes (pos <= Len(bytes)).
WriteAt(bytes, pos, data) ==
    LET n == IF pos + Len(data) > Len(bytes) THEN pos + Len(data) ELSE Len(bytes)
    IN  [i \in 1..n |-> IF i > pos /\ i <= pos + Len(data) THEN data[i - pos]
                        ELSE bytes[i]]
\* File.ReadAt(buf, off) with len(buf) = n: an error unless n bytes are there.
ReadAt(bytes, off, n) ==
    IF off + n <= Len(bytes) THEN [ok |-> TRUE, buf |-> SubSeq(bytes, off + 1, off + n)]
    ELSE [ok |-> FALSE, buf |-> <<>>]

\* SaveOffsetIndex / LoadOffsetIndex: collection.idx holds one record per entry of
\* the offset index (id, offset, size, compressed size, checksum), all of fixed
\* width but the id, which follows its length.
SaveOffsetIndex(index) ==
    [exists |-> TRUE,
     records |-> {[ID |-> id, Entry |-> index[id]] : id \in DOMAIN index}]
LoadOffsetIndex(file) ==
    IF ~file.exists THEN EmptyMap
    ELSE [id \in {r.ID : r \in file.records} |->
             (CHOOSE r \in file.records : r.ID = id).Entry]

\* writeHeader: magic, version and flags at the file position; offset becomes 8.
writeHeader(w) ==
    LET buf == LittleEndian(CollectionMagic, 4) \o LittleEndian(BinaryFormatVersion, 2)
               \o LittleEndian(1, 2)
    IN  [w EXCEPT !.bytes = WriteAt(w.bytes, w.pos, buf),
                  !.pos = w.pos + Len(buf),
                  !.offset = Len(buf)]

\* NewBinaryCollectionWriter: the data file is opened for reading and writing without
\* O_APPEND or O_TRUNC, so the file position starts at 0 while offset starts at the
\* size of the file; the header is written only into an empty file; the offset
\* index already on disk becomes the writer's index.
NewBinaryCollectionWriter(data, idx) ==
    LET w == [bytes |-> data.bytes, pos |-> 0, offset |-> Len(data.bytes),
              index |-> EmptyMap]
        h == IF Len(data.bytes) = 0 THEN writeHeader(w) ELSE w
    IN  [h EXCEPT !.index = LoadOffsetIndex(idx)]

\* WriteDocument: the entry header and the compressed JSON go to the file position,
\* the index entry records w.offset.
WriteDocument(w, doc) ==
    LET jsonData == MarshalJSON(doc)
        compressedData == Compress(jsonData)
        checksum == ChecksumIEEE(compressedData)
        entryBuf == LittleEndian(w.offset, 8) \o LittleEndian(Len(jsonData), 4)
                    \o LittleEndian(Len(compressedData), 4) \o ChecksumBytes(checksum)
        entry == [Offset |-> w.offset, Size |-> Len(jsonData),
                  CompressedSize |-> Len(compressedData), Checksum |-> checksum]
    IN  [bytes |-> WriteAt(w.bytes, w.pos, entryBuf \o compressedData),
         pos |-> w.pos + Len(entryBuf) + Len(compressedData),
         offset |-> w.offset + DocEntryHeaderSize + Len(compressedData),
         index |-> MapPut(w.index, doc.ID, entry)]

\* The loop of SaveCollection over coll.Documents, in the order given.
RECURSIVE WriteDocuments(_, _, _)
WriteDocuments(w, docs, order) ==
    IF order = <<>> THEN w
    ELSE WriteDocuments(WriteDocument(w, docs[Head(order)]), docs, Tail(order))

\* Index.Serialize and SaveToDisk / LoadIndexFromDisk and Deserialize: the JSON
\* object {name, field_name, data}.
Serialize(idx) == [name |-> idx.Name, field_name |-> idx.FieldName, data |-> idx.Data]
Deserialize(d) == [Name |-> d.name, FieldName |-> d.field_name, Data |-> d.data]
\* LoadAllIndexes: every <name>.json of the indexes directory.
LoadAllIndexes(files) == [n \in DOMAIN files |-> Deserialize(files[n])]

NotLoaded(err) == [err |-> err, Documents |-> EmptyMap, Indexes |-> EmptyMap,
                   Schema |-> NilSchema]

\* StorageManager.SaveCollection(dbName, coll), binary format: the metadata, every
\* document through a new writer, the offset index (Flush), every index snapshot.
SaveFiles(documents, indexes, schema) ==
    /\ saves < MaxSaves
    /\ saves' = saves + 1
    /\ metaFile' = [exists |-> TRUE, Schema |-> schema,
                    Indexes |-> [n \in DOMAIN indexes |-> indexes[n].FieldName],
                    Format |-> "binary"]
    /\ \E order \in Perms(DOMAIN documents) :
          LET w == WriteDocuments(NewBinaryCollectionWriter(dataFile, idxFile),
                                  documents, order)
          IN  /\ dataFile' = [exists |-> TRUE, bytes |-> w.bytes]
              /\ idxFile' = SaveOffsetIndex(w.index)
    /\ indexFiles' = [n \in DOMAIN indexFiles \cup DOMAIN indexes |->
                         IF n \in DOMAIN indexes THEN Serialize(indexes[n])
                         ELSE indexFiles[n]]
SaveCollection ==
    /\ SaveFiles(Documents, Indexes, Schema)
    /\ ret' = Ret("SaveCollection", "")
    /\ UNCHANGED <<Documents, Indexes, Schema>>

\* NewBinaryCollectionReader: [err, index]; a reader is returned when err = "".
\* Of the header only the magic number is compared.
NewBinaryCollectionReader(data, idx) ==
    IF ~data.exists THEN [err |-> "notexist", index |-> EmptyMap]
    ELSE IF ~ReadAt(data.bytes, 0, HeaderSize).ok
    THEN [err |-> "header", index |-> EmptyMap]
    ELSE IF SubSeq(ReadAt(data.bytes, 0, HeaderSize).buf, 1, 4)
              # LittleEndian(CollectionMagic, 4)
    THEN [err |-> "magic", index |-> EmptyMap]
    ELSE [err |-> "", index |-> LoadOffsetIndex(idx)]

\* ReadDocument that does not compare the checksum.
ReadDocumentNoChecksum(bytes, entry) ==
    LET got == ReadAt(bytes, entry.Offset, DocEntryHeaderSize + entry.CompressedSize)
        compressedData == SubSeq(got.buf, DocEntryHeaderSize + 1, Len(got.buf))
        jsonData == Decompress(compressedData)
        doc == UnmarshalJSON(jsonData.data)
    IN  IF ~got.ok THEN [ok |-> FALSE, err |-> "read", doc |-> NilDoc]
        ELSE IF ~jsonData.ok THEN [ok |-> FALSE, err |-> "decompress", doc |-> NilDoc]
        ELSE IF ~doc.ok THEN [ok |-> FALSE, err |-> "unmarshal", doc |-> NilDoc]
        ELSE [ok |-> TRUE, err |-> "", doc |-> doc.doc]

\* BinaryCollectionReader.ReadDocument(docID) on the bytes of the data file, entry
\* being the offset index's entry of docID: [ok, err, doc].
ReadDocument(bytes, entry) ==
    LET got == ReadAt(bytes, entry.Offset, DocEntryHeaderSize + entry.CompressedSize)
        compressedData == SubSeq(got.buf, DocEntryHeaderSize + 1, Len(got.buf))
        jsonData == Decompress(compressedData)
        doc == UnmarshalJSON(jsonData.data)
    IN  IF ~got.ok THEN [ok |-> FALSE, err |-> "read", doc |-> NilDoc]
        ELSE IF ChecksumIEEE(compressedData) # entry.Checksum
        THEN [ok |-> FALSE, err |-> "checksum", doc |-> NilDoc]
        ELSE IF ~jsonData.ok THEN [ok |-> FALSE, err |-> "decompress", doc |-> NilDoc]
        ELSE IF ~doc.ok THEN [ok |-> FALSE, err |-> "unmarshal", doc |-> NilDoc]
        ELSE [ok |-> TRUE, err |-> "", doc |-> doc.doc]

\* What StorageManager.LoadCollection returns from the files given.
LoadCollectionResult(meta, data, idx, files) ==
    IF ~meta.exists THEN NotLoaded("metadata")
    ELSE IF NewBinaryCollectionReader(data, idx).err # ""
    THEN NotLoaded(NewBinaryCollectionReader(data, idx).err)
    ELSE LET index == NewBinaryCollectionReader(data, idx).index
             read == [id \in DOMAIN index |-> ReadDocument(data.bytes, index[id])]
             ids == {read[id].doc.ID : id \in DOMAIN index}
             docs == [id \in ids |->
                        (CHOOSE k \in DOMAIN index : read[k].doc.ID = id) ]
             indexes == LoadAllIndexes(files)
             rebuilt == CHOOSE i \in BuildIndex([id \in ids |-> read[docs[id]].doc],
                                                NewIndex("_id", "_id")) : TRUE
         IN  IF \E id \in DOMAIN index : ~read[id].ok THEN NotLoaded("read")
             ELSE [err |-> "",
                   Documents |-> [id \in ids |-> read[docs[id]].doc],
                   Indexes |-> [n \in {"_id"} \cup DOMAIN indexes |->
                                  IF n \in DOMAIN indexes THEN indexes[n] ELSE rebuilt],
                   Schema |-> meta.Schema]

\* StorageManager.LoadCollection(dbName, collName); ret.result holds the collection
\* it returns.
LoadCollection ==
    /\ LET loaded == LoadCollectionResult(metaFile, dataFile, idxFile, indexFiles)
       IN  ret' = [Ret("LoadCollection", loaded.err) EXCEPT !.result = <<loaded>>]
    /\ UNCHANGED <<Documents, Indexes, Schema, metaFile, dataFile, idxFile, indexFiles,
                   saves>>

\* A byte of collection.data that is not the byte the writer wrote there.
Damaged == <<"x", "x">>
DamagedAt(bytes) == {i \in 1..Len(bytes) : bytes[i] = Damaged}

\* One byte of collection.data changes on disk, at most MaxDamage of them.
Corrupt(i) ==
    /\ dataFile.exists
    /\ i \in 1..Len(dataFile.bytes)
    /\ dataFile.bytes[i] # Damaged
    /\ Cardinality(DamagedAt(dataFile.bytes)) < MaxDamage
    /\ dataFile' = [dataFile EXCEPT !.bytes[i] = Damaged]
    /\ ret' = Ret("Corrupt", "")
    /\ UNCHANGED <<Documents, Indexes, Schema, metaFile, idxFile, indexFiles, saves>>

\* NewBinaryCollectionReader(dataDir, dbName, collName), the reader closed again.
OpenReader ==
    /\ ret' = Ret("NewBinaryCollectionReader",
                  NewBinaryCollectionReader(dataFile, idxFile).err)
    /\ UNCHANGED <<Documents, Indexes, Schema, metaFile, dataFile, idxFile, indexFiles,
                   saves>>

\* A reader is opened and reader.ReadDocument(docID) called; ret.result holds the
\* document it returns.
ReadDocumentByID(docID) ==
    /\ NewBinaryCollectionReader(dataFile, idxFile).err = ""
    /\ LET index == NewBinaryCollectionReader(dataFile, idxFile).index
           r == [Ret("ReadDocument", "") EXCEPT !.id = docID]
       IN  IF docID \notin DOMAIN index
           THEN ret' = [r EXCEPT !.err = "notfound"]
           ELSE LET got == ReadDocument(dataFile.bytes, index[docID])
                IN  ret' = [r EXCEPT !.err = got.err,
                                     !.result = IF got.ok THEN <<got.doc>> ELSE <<>>]
    /\ UNCHANGED <<Documents, Indexes, Schema, metaFile, dataFile, idxFile, indexFiles,
                   saves>>

Next ==
    /\ UNCHANGED rest
    /\ \/ \E doc \in InsertDocsOf(FValues) : Insert(doc) /\ UNCHANGED disk
       \/ \E id \in IDs : FindByID(id) /\ UNCHANGED disk
       \/ \E query \in Queries : Find(query) /\ UNCHANGED disk
       \/ \E id \in IDs, updates \in UpdateMapsOf(FValues) :
             Update(id, updates) /\ UNCHANGED disk
       \/ \E id \in IDs : Delete(id) /\ UNCHANGED disk
       \/ \E n \in IndexNames, f \in IndexFields : CreateIndex(n, f) /\ UNCHANGED disk
       \/ \E n \in IndexNames : DropIndex(n) /\ UNCHANGED disk

Spec == Init /\ [][Next]_vars

\* The same collection with two user indexes, the values that print as "1", and
\* no update of _id.
NextTwo ==
    /\ UNCHANGED rest
    /\ \/ \E doc \in InsertDocsOf(OneValues) : Insert(doc) /\ UNCHANGED disk
       \/ \E id \in IDs : FindByID(id) /\ UNCHANGED disk
       \/ \E query \in Queries : Find(query) /\ UNCHANGED disk
       \/ \E id \in IDs, updates \in [Fields -> OneValues] :
             Update(id, updates) /\ UNCHANGED disk
       \/ \E id \in IDs : Delete(id) /\ UNCHANGED disk
       \/ \E n \in TwoIndexNames, f \in IndexFields : CreateIndex(n, f) /\ UNCHANGED disk
       \/ \E n \in TwoIndexNames : DropIndex(n) /\ UNCHANGED disk

SpecTwo == Init /\ [][NextTwo]_vars

\* The collection together with its files: the calls that change it, and saves and
\* loads at any moment.
StoreValues == {Str(<<"x">>)}
StoreDocs == {doc \in InsertDocsOf(StoreValues) : doc.ID # IdB}
NextStore ==
    /\ UNCHANGED rest
    /\ \/ \E doc \in StoreDocs : Insert(doc) /\ UNCHANGED disk
       \/ \E id \in IDs, updates \in [Fields -> StoreValues] :
             Update(id, updates) /\ UNCHANGED disk
       \/ \E id \in IDs : Delete(id) /\ UNCHANGED disk
       \/ \E n \in IndexNames, f \in IndexFields : CreateIndex(n, f) /\ UNCHANGED disk
       \/ \E n \in IndexNames : DropIndex(n) /\ UNCHANGED disk
       \/ SaveCollection
       \/ LoadCollection

SpecStore == Init /\ [][NextStore]_vars

\* A collection as some inserts leave it, with numeric values of f of one, two and
\* three digits, and the queries made on it: pages of the whole collection and
\* ordered comparisons with a number.
QueryNums == {9, 10, 30, 100}
QueryCollections ==
    UNION {[ids -> {Doc(EmptyID, [f \in Fields |-> Num(n)]) : n \in QueryNums}] :
              ids \in SUBSET IDs}
PageRange == -1..3
OrderOps == {"gt", "gte", "lt", "lte"}
PageQueries ==
    {Query(<<>>, l, s) : l \in PageRange, s \in PageRange}
    \cup {Query(<<Filter("f", op, Num(n))>>, 0, 0) : op \in OrderOps, n \in QueryNums}
    \cup {Query(<<Filter("f", "gte", Num(10))>>, l, s) : l \in 1..2, s \in 0..1}

\* No file of the collection exists yet.
NoFiles ==
    /\ metaFile = [exists |-> FALSE, Schema |-> NilSchema, Indexes |-> EmptyMap,
                   Format |-> ""]
    /\ dataFile = [exists |-> FALSE, bytes |-> <<>>]
    /\ idxFile = [exists |-> FALSE, records |-> {}]
    /\ indexFiles = EmptyMap
    /\ saves = 0

InitQuery ==
    /\ Idle
    /\ \E c \in QueryCollections :
          /\ Documents = [id \in DOMAIN c |-> [c[id] EXCEPT !.ID = id]]
          /\ Indexes \in {[n \in {"_id"} |-> i] :
                            i \in BuildIndex([id \in DOMAIN c |-> [c[id] EXCEPT !.ID = id]],
                                             NewIndex("_id", "_id"))}
    /\ Schema = NilSchema
    /\ ret = Ret("NewCollection", "")
    /\ NoFiles

NextQuery == \E query \in PageQueries : Find(query) /\ UNCHANGED <<disk, rest>>

SpecQuery == InitQuery /\ [][NextQuery]_vars

\* The collection saved and its data file read back document by document, with
\* bytes of the file damaged in between.
ReadDocs == {doc \in StoreDocs : doc.Data["f"] # Absent}
InitRead ==
    /\ Idle
    /\ Documents = EmptyMap
    /\ Indexes = NewCollectionIndexes
    /\ Schema = NilSchema
    /\ ret = Ret("NewCollection", "")
    /\ NoFiles

NextRead ==
    /\ UNCHANGED rest
    /\ \/ \E doc \in ReadDocs : Insert(doc) /\ UNCHANGED disk
       \/ SaveCollection
       \/ \E i \in 1..MaxFileLen : Corrupt(i)
       \/ OpenReader
       \/ \E id \in IDs : ReadDocumentByID(id)

SpecRead == InitRead /\ [][NextRead]_vars

\* ------------------------------------------------------------ write-ahead log
\* One database "d" with one collection "c". The log is its records in the order
\* of their sequence numbers; an offset is the number of records before it.
MaxWal == 4

\* WALEntry, with the sequence number AppendEntry assigns.
WALEntry(op, collName, docID, data) ==
    [Sequence |-> 0, Operation |-> op, Database |-> "d", Collection |-> collName,
     DocumentID |-> docID, Data |-> data]
\* WAL.AppendEntry(entry): the record goes to the end of the log.
AppendEntry(w, entry) ==
    [w EXCEPT !.entries = Append(w.entries, [entry EXCEPT !.Sequence = Len(w.entries) + 1])]
\* WAL.currentOffset
currentOffset(w) == Len(w.entries)

\* A collection as a value: what the methods of Collection do to it, for the
\* calls Replay makes. [err, c]
Coll(docs, indexes, schema) == [Documents |-> docs, Indexes |-> indexes, Schema |-> schema]
NewCollection(schema) == Coll(EmptyMap, NewCollectionIndexes, schema)
\* Collection.Insert(doc) with id the value of uuid.New() when doc.ID is empty.
InsertResult(c, doc, id) ==
    LET d == [doc EXCEPT !.ID = IF doc.ID = EmptyID THEN id ELSE doc.ID]
    IN  IF d.ID \in DOMAIN c.Documents THEN [err |-> "exists", c |-> c]
        ELSE IF ValidateDocument(c.Schema, d) # {} THEN [err |-> "schema", c |-> c]
        ELSE [err |-> "",
              c |-> [c EXCEPT !.Documents = MapPut(c.Documents, d.ID, d),
                              !.Indexes = updateIndexes(c.Indexes, NilDoc, d)]]
\* Collection.Update(id, updates) for updates without the key _id.
UpdateResult(c, id, updates) ==
    IF id \notin DOMAIN c.Documents THEN [err |-> "notfound", c |-> c]
    ELSE LET oldDoc == Clone(c.Documents[id])
             newDoc == ApplyUpdates(c.Documents[id], updates, DOMAIN updates)
         IN  IF ValidateDocument(c.Schema, newDoc) # {} THEN [err |-> "schema", c |-> c]
             ELSE [err |-> "",
                   c |-> [c EXCEPT !.Documents = MapPut(c.Documents, id, newDoc),
                                   !.Indexes = updateIndexes(c.Indexes, oldDoc, newDoc)]]
\* Collection.Delete(id)
DeleteResult(c, id) ==
    IF id \notin DOMAIN c.Documents THEN [err |-> "notfound", c |-> c]
    ELSE [err |-> "",
          c |-> [c EXCEPT !.Documents = MapDelete(c.Documents, id),
                          !.Indexes = updateIndexes(c.Indexes, c.Documents[id], NilDoc)]]
\* Collection.CreateIndex(indexName, fieldName): every outcome of the scan.
CreateIndexResults(c, indexName, fieldName) ==
    IF indexName \in DOMAIN c.Indexes THEN {[err |-> "exists", c |-> c]}
    ELSE {[err |-> "", c |-> [c EXCEPT !.Indexes = MapPut(c.Indexes, indexName, idx)]] :
             idx \in BuildIndex(c.Documents, NewIndex(indexName, fieldName))}

\* The keys of a document's data that are present, as the map LogUpdate's caller
\* and Replay hand to Update.
PresentData(doc) == [k \in {f \in DOMAIN doc.Data : doc.Data[f] # Absent} |-> doc.Data[k]]

\* A DatabaseManager as a value: whether database "d" is in it, whether "c" is in
\* d.Collections, and the collection.
NilColl == Coll(EmptyMap, EmptyMap, NilSchema)
Manager(db, hasColl, c) == [db |-> db, coll |-> hasColl, c |-> c]
NewDatabaseManager == Manager(FALSE, FALSE, NilColl)

\* The values uuid.New() can return: one that is no id of the collection. The
\* ids Insert can give doc: a new one when doc has none.
UUIDPool == {<<"u">>, <<"v">>}
FreshUUIDs(c) == UUIDPool \ DOMAIN c.Documents
InsertIDs(c, doc) == IF doc.ID = EmptyID THEN FreshUUIDs(c) ELSE {doc.ID}

\* WAL.Replay applies one record to the manager: the outcomes {[err, dm]}. A
\* create of what exists, an insert of a stored id and an update or delete of an
\* id that is not stored are skipped; any other record is applied through the
\* manager's own methods and must apply cleanly.
ReplayEntry(dm, e) ==
    LET ok(m) == [err |-> "", dm |-> m]
        fail(err) == [err |-> err, dm |-> dm]
        lift(r) == IF r.err = "" THEN ok([dm EXCEPT !.c = r.c]) ELSE fail(r.err)
    IN  CASE e.Operation = "create_database" ->
                {ok([dm EXCEPT !.db = TRUE])}
          [] e.Operation = "create_collection" ->
                IF ~dm.db THEN {fail("nodatabase")}
                ELSE IF dm.coll THEN {ok(dm)}
                ELSE {ok([dm EXCEPT !.coll = TRUE, !.c = NewCollection(e.Data)])}
          [] ~dm.db \/ ~dm.coll -> {fail("nocollection")}
          [] e.Operation = "create_index" ->
                IF e.Data.index_name \in DOMAIN dm.c.Indexes THEN {ok(dm)}
                ELSE {lift(r) : r \in CreateIndexResults(dm.c, e.Data.index_name,
                                                         e.Data.field_name)}
          [] e.Operation = "insert" ->
                LET doc == UnmarshalJSON(e.Data).doc
                IN  IF doc.ID \in DOMAIN dm.c.Documents THEN {ok(dm)}
                    ELSE {lift(InsertResult(dm.c, doc, id)) : id \in InsertIDs(dm.c, doc)}
          [] e.Operation = "update" ->
                LET doc == UnmarshalJSON(e.Data).doc
                IN  IF e.DocumentID \notin DOMAIN dm.c.Documents THEN {ok(dm)}
                    ELSE {lift(UpdateResult(dm.c, e.DocumentID, PresentData(doc)))}
          [] e.Operation = "delete" ->
                IF e.DocumentID \notin DOMAIN dm.c.Documents THEN {ok(dm)}
                ELSE {lift(DeleteResult(dm.c, e.DocumentID))}
          [] OTHER -> {fail("operation")}

\* WAL.Replay(dm, sm): the records after the last checkpoint, in ascending
\* sequence; the first record that fails ends the replay with its error.
RECURSIVE ReplayFrom(_, _)
ReplayFrom(dm, entries) ==
    IF entries = <<>> THEN {[err |-> "", dm |-> dm]}
    ELSE UNION {IF r.err # "" THEN {r} ELSE ReplayFrom(r.dm, Tail(entries)) :
                   r \in ReplayEntry(dm, Head(entries))}
Replay(dm, w) == ReplayFrom(dm, SubSeq(w.entries, w.checkpoint + 1, Len(w.entries)))

\* StorageManager.LoadDatabase for every directory of the root but wal/: the
\* directory of "d" is there once something was saved into it.
LoadDatabases(meta, data, idx, files) ==
    IF ~meta.exists THEN [err |-> "", dm |-> NewDatabaseManager]
    ELSE LET loaded == LoadCollectionResult(meta, data, idx, files)
         IN  IF loaded.err # "" THEN [err |-> loaded.err, dm |-> NewDatabaseManager]
             ELSE [err |-> "",
                   dm |-> Manager(TRUE, TRUE, Coll(loaded.Documents, loaded.Indexes,
                                                   loaded.Schema))]
\* StorageManager.LoadAllDatabases(): the outcomes {[err, dm]}.
LoadAllDatabases(meta, data, idx, files, w) ==
    LET loaded == LoadDatabases(meta, data, idx, files)
    IN  IF loaded.err # "" THEN {loaded} ELSE Replay(loaded.dm, w)

\* The collection in memory as a value, and the manager it is part of.
Live == Coll(Documents, Indexes, Schema)
HasCollection == "c" \in DOMAIN Collections

\* StorageManager.LogInsert("d", "c", doc): thread t logs the insert it is about
\* to make; pc[t] holds the call and the sequence number of its record.
Pending(op, doc, w) == [op |-> op, doc |-> doc, seq |-> Len(w.entries) + 1]
LogInsert(t, doc) ==
    /\ HasCollection /\ t \notin DOMAIN pc /\ Len(wal.entries) < MaxWal
    /\ wal' = AppendEntry(wal, WALEntry("insert", "c", doc.ID, MarshalJSON(doc)))
    /\ pc' = MapPut(pc, t, Pending("Insert", doc, wal))
    /\ ret' = Ret("LogInsert", "")
    /\ UNCHANGED <<coll, disk, Collections, ctx, locks, held>>

\* StorageManager.LogUpdate("d", "c", doc), doc being the document as the update
\* will leave it.
LogUpdate(t, doc) ==
    /\ HasCollection /\ t \notin DOMAIN pc /\ Len(wal.entries) < MaxWal
    /\ wal' = AppendEntry(wal, WALEntry("update", "c", doc.ID, MarshalJSON(doc)))
    /\ pc' = MapPut(pc, t, Pending("Update", doc, wal))
    /\ ret' = Ret("LogUpdate", "")
    /\ UNCHANGED <<coll, disk, Collections, ctx, locks, held>>

\* StorageManager.LogDelete("d", "c", docID)
LogDelete(t, docID) ==
    /\ HasCollection /\ t \notin DOMAIN pc /\ Len(wal.entries) < MaxWal
    /\ wal' = AppendEntry(wal, WALEntry("delete", "c", docID, <<>>))
    /\ pc' = MapPut(pc, t, Pending("Delete", Doc(docID, [k \in Fields |-> Absent]), wal))
    /\ ret' = Ret("LogDelete", "")
    /\ UNCHANGED <<coll, disk, Collections, ctx, locks, held>>

\* StorageManager.LogCreateDatabase("d") and LogCreateCollection("d", "c", schema)
LogCreateDatabase(w) == AppendEntry(w, WALEntry("create_database", "", EmptyID, <<>>))
LogCreateCollection(w, schema) ==
    AppendEntry(w, WALEntry("create_collection", "c", EmptyID, schema))

\* The call thread t logged is made on the collection: Collection.Insert,
\* Collection.Update or Collection.Delete, each under the collection's lock.
Mutate(t) ==
    /\ t \in DOMAIN pc
    /\ pc' = MapDelete(pc, t)
    /\ \E id \in InsertIDs(Live, pc[t].doc) :
          LET p == pc[t]
              r == CASE p.op = "Insert" -> InsertResult(Live, p.doc, id)
                     [] p.op = "Update" -> UpdateResult(Live, p.doc.ID, PresentData(p.doc))
                     [] p.op = "Delete" -> DeleteResult(Live, p.doc.ID)
          IN  /\ Documents' = r.c.Documents
              /\ Indexes' = r.c.Indexes
              /\ ret' = [Ret(p.op, r.err) EXCEPT
                            !.id = IF p.doc.ID = EmptyID /\ r.err = "" THEN id ELSE p.doc.ID]
    /\ UNCHANGED <<Schema, disk, wal, Collections, ctx, locks, held>>

\* StorageManager.Checkpoint(): the current offset becomes the checkpoint.
Checkpoint ==
    /\ wal.checkpoint < currentOffset(wal)
    /\ wal' = [wal EXCEPT !.checkpoint = currentOffset(wal)]
    /\ ret' = Ret("Checkpoint", "")
    /\ UNCHANGED <<coll, disk, Collections, ctx, pc, locks, held>>

\* The process stops and starts again: what is in memory is lost, and
\* LoadAllDatabases builds the manager from the files and the log. ret.result
\* holds the manager it returns.
Restart ==
    /\ \E r \in LoadAllDatabases(metaFile, dataFile, idxFile, indexFiles, wal) :
          /\ ret' = [Ret("LoadAllDatabases", r.err) EXCEPT !.result = <<r.dm>>]
          /\ Documents' = r.dm.c.Documents
          /\ Indexes' = r.dm.c.Indexes
          /\ Schema' = r.dm.c.Schema
          /\ Collections' = IF r.dm.coll THEN [n \in {"c"} |-> r.dm.c.Schema] ELSE EmptyMap
    /\ pc' = EmptyMap
    /\ UNCHANGED <<disk, wal, ctx, locks, held>>

\* A storage manager on an empty root directory, database "d" and its collection
\* "c" created and logged, nothing saved yet.
InitWAL ==
    /\ Documents = EmptyMap
    /\ Indexes = NewCollectionIndexes
    /\ Schema = NilSchema
    /\ ret = Ret("NewCollection", "")
    /\ NoFiles
    /\ wal = LogCreateCollection(LogCreateDatabase(NoWAL), NilSchema)
    /\ Collections = [n \in {"c"} |-> NilSchema]
    /\ ctx = "live"
    /\ pc = EmptyMap
    /\ locks = EmptyMap
    /\ held = NoHeld

\* One caller that logs each call before it makes it, saves and checkpoints at
\* any moment, and a crash at any moment.
WalValues == {Str(<<"x">>)}
WalDocs == {Doc(id, data) : id \in {IdA, EmptyID}, data \in [Fields -> WalValues \cup {Absent}]}
WalThreads == {1}
NextWAL ==
    \/ \E t \in WalThreads, doc \in WalDocs : LogInsert(t, doc)
    \/ \E t \in WalThreads, doc \in WalDocs : doc.ID # EmptyID /\ LogUpdate(t, doc)
    \/ \E t \in WalThreads : LogDelete(t, IdA)
    \/ \E t \in WalThreads : Mutate(t)
    \/ HasCollection /\ pc = EmptyMap /\ SaveCollection /\ UNCHANGED rest
    \/ Checkpoint
    \/ Restart

SpecWAL == InitWAL /\ [][NextWAL]_vars

\* Two callers of the same collection, each logging a call and then making it,
\* with ids they give themselves; nothing is saved and the process keeps running.
LogThreads == {1, 2}
LogDocs == {doc \in WalDocs : doc.ID # EmptyID}
NextLog ==
    \/ \E t \in LogThreads, doc \in LogDocs : LogInsert(t, doc)
    \/ \E t \in LogThreads, doc \in LogDocs : LogUpdate(t, doc)
    \/ \E t \in LogThreads : LogDelete(t, IdA)
    \/ \E t \in LogThreads : Mutate(t)

SpecLog == InitWAL /\ [][NextLog]_vars

\* ------------------------------------------------------------------ threads
\* Threads call the methods of one collection at the same time. A call is a
\* program of steps: the calls on the mutexes, and between them the statements
\* that read or write the collection, in the order of the code.
MaxCalls == 1

\* sync.RWMutex: the writer that holds it (0 for none), the readers that hold
\* it, and the threads blocked in Lock(), which keep new readers out.
Free == [w |-> 0, r |-> {}, q |-> {}]
Mutexes == {"dm", "db", "c", "idx", "wal"}
\* RLock() that returns at once, whoever holds the mutex.
CanRLockAlways(l) == TRUE
\* RLock() returns when no writer holds the mutex and none waits for it.
CanRLock(l) == l.w = 0 /\ l.q = {}
\* Lock() returns when nobody holds the mutex.
CanLock(l) == l.w = 0 /\ l.r = {}
Holds(t, m) == locks[m].w = t \/ t \in locks[m].r

\* A call and its frame: the step it is at, its locals, the calls in progress
\* when it was made (thread and number of the call), the collection as it
\* was when the call took the collection's lock, and what it returns.
NoCall == [op |-> "none", doc |-> NilDoc, name |-> "", query |-> NoQuery]
CallOf(op, doc, name, query) == [op |-> op, doc |-> doc, name |-> name, query |-> query]
Frame(call, n, during) ==
    [call |-> call, i |-> 1, n |-> n, err |-> "", id |-> call.doc.ID, old |-> NilDoc,
     snap |-> NilColl, had |-> FALSE, result |-> <<>>, during |-> during]
\* The frame of a call that has returned: its locals are gone.
Leave(f) == [f EXCEPT !.old = NilDoc, !.snap = NilColl, !.result = <<>>]

\* The steps of each call.
L(m) == <<"Lock", m>>
U(m) == <<"Unlock", m>>
RL(m) == <<"RLock", m>>
RU(m) == <<"RUnlock", m>>
Do(stmt) == <<"do", stmt>>
\* SaveCollection with the index's mutex taken before the collection's.
SaveCollectionStepsIndexFirst == <<RL("idx"), RL("c"), Do("save"), RU("c"), RU("idx")>>
\* SaveCollection: the collection's lock for reading around the writes of the
\* files, each index's lock for reading around its Serialize.
SaveCollectionSteps == <<RL("c"), RL("idx"), Do("save"), RU("idx"), RU("c")>>
\* Every mutex but an index's is held to the end of the call (defer); a call of
\* another method is made with the caller's mutexes held.
Program(op) ==
    CASE op = "Insert" -> <<L("c"), Do("check"), Do("put"), L("idx"), Do("index"),
                            U("idx"), U("c")>>
      [] op = "Update" -> <<L("c"), Do("apply"), Do("validate"), L("idx"), Do("index"),
                            U("idx"), U("c")>>
      [] op = "Delete" -> <<L("c"), L("idx"), Do("unindex"), U("idx"), Do("delete"),
                            U("c")>>
      [] op = "CreateIndex" -> <<L("c"), Do("build"), U("c")>>
      [] op = "DropIndex" -> <<L("c"), Do("drop"), U("c")>>
      [] op = "Find" -> <<RL("c"), RL("idx"), Do("find"), RU("idx"), RU("c")>>
      [] op = "FindByID" -> <<RL("c"), Do("byid"), RU("c")>>
      [] op = "Count" -> <<RL("c"), Do("count"), RU("c")>>
      [] op = "GetCollection" -> <<RL("db"), Do("get"), RU("db")>>
      [] op = "CreateCollection" -> <<L("db"), Do("create"), U("db")>>
      [] op = "DropCollection" -> <<L("db"), Do("dropcoll"), U("db")>>
      [] op = "SaveCollection" -> SaveCollectionSteps
      [] op = "SaveDatabase" -> <<RL("db")>> \o SaveCollectionSteps \o <<RU("db")>>
      [] op = "SaveAllDatabases" ->
            <<RL("dm"), RL("db")>> \o SaveCollectionSteps \o <<RU("db"), RU("dm")>>
      [] op = "LogInsert" -> <<L("wal"), Do("append"), U("wal")>>
      [] op = "Checkpoint" -> <<RL("wal"), Do("offset"), RU("wal"), L("wal"),
                                Do("checkpoint"), U("wal")>>
      [] OTHER -> <<>>

InCall(t) == pc[t].i <= Len(Program(pc[t].call.op))
Instr(t) == Program(pc[t].call.op)[pc[t].i]
Returned(t) == pc[t].call.op # "none" /\ ~InCall(t)

\* Collection.DropIndex(indexName) on a collection as a value.
DropIndexResult(c, indexName) ==
    IF indexName = "_id" THEN [err |-> "reserved", c |-> c]
    ELSE IF indexName \notin DOMAIN c.Indexes THEN [err |-> "notfound", c |-> c]
    ELSE [err |-> "", c |-> [c EXCEPT !.Indexes = MapDelete(c.Indexes, indexName)]]

\* A thread that is in no call makes one.
Call(t, call) ==
    /\ ~InCall(t) /\ pc[t].n < MaxCalls
    /\ pc' = [pc EXCEPT ![t] = Frame(call, pc[t].n + 1,
                                     {<<u, pc[u].n>> : u \in {v \in DOMAIN pc :
                                                                 v # t /\ InCall(v)}})]
    /\ UNCHANGED <<coll, ret, disk, wal, Collections, ctx, locks, held>>

\* The thread's next step is a call on a mutex. A Lock() that cannot return
\* leaves the thread waiting in it.
LockStep(t) ==
    /\ InCall(t) /\ Instr(t)[1] # "do"
    /\ LET kind == Instr(t)[1]
           m == Instr(t)[2]
           l == locks[m]
           f == pc[t]
           take == m = "c" /\ kind \in {"Lock", "RLock"}
           g == [f EXCEPT !.i = @ + 1,
                          !.snap = IF take THEN Live ELSE @,
                          !.had = IF take THEN f.id \in DOMAIN Documents ELSE @]
           go == [pc EXCEPT ![t] = IF g.i > Len(Program(f.call.op)) THEN Leave(g)
                                   ELSE g]
       IN  CASE kind = "Lock" ->
                  IF CanLock(l)
                  THEN /\ locks' = [locks EXCEPT ![m].w = t, ![m].q = @ \ {t}]
                       /\ pc' = go
                  ELSE /\ t \notin l.q
                       /\ locks' = [locks EXCEPT ![m].q = @ \cup {t}]
                       /\ pc' = pc
             [] kind = "RLock" ->
                  /\ CanRLock(l)
                  /\ locks' = [locks EXCEPT ![m].r = @ \cup {t}]
                  /\ pc' = go
             [] kind = "Unlock" ->
                  /\ locks' = [locks EXCEPT ![m].w = 0]
                  /\ pc' = go
             [] kind = "RUnlock" ->
                  /\ locks' = [locks EXCEPT ![m].r = @ \ {t}]
                  /\ pc' = go
    /\ UNCHANGED <<coll, ret, disk, wal, Collections, ctx, held>>

\* The thread's next step is a statement of Insert, Update, Delete, CreateIndex,
\* DropIndex, Find, FindByID or Count, made on the collection as it is now.
CollectionStmts == {"check", "put", "index", "apply", "validate", "unindex", "delete",
                    "build", "drop", "find", "byid", "count"}
DoStep(t) ==
    /\ InCall(t) /\ Instr(t)[1] = "do" /\ Instr(t)[2] \in CollectionStmts
    /\ LET f == pc[t]
           stmt == Instr(t)[2]
           doc == f.call.doc
           next(g) == [pc EXCEPT ![t] = [g EXCEPT !.i = f.i + 1]]
           skip == /\ pc' = next(f) /\ UNCHANGED coll
       IN  CASE stmt = "check" ->
                  \E id \in InsertIDs(Live, doc) :
                     /\ pc' = next([f EXCEPT
                                 !.id = id,
                                 !.err = IF id \in DOMAIN Documents THEN "exists"
                                         ELSE IF ValidateDocument(Schema,
                                                    [doc EXCEPT !.ID = id]) # {}
                                         THEN "schema" ELSE ""])
                     /\ UNCHANGED coll
             [] stmt = "put" ->
                  IF f.err # "" THEN skip
                  ELSE /\ Cardinality(DOMAIN Documents) < MaxDocs
                       /\ Documents' = MapPut(Documents, f.id, [doc EXCEPT !.ID = f.id])
                       /\ pc' = next(f)
                       /\ UNCHANGED <<Indexes, Schema>>
             [] stmt = "index" ->
                  IF f.err # "" THEN skip
                  ELSE /\ Indexes' = updateIndexes(Indexes, f.old, Documents[f.id])
                       /\ pc' = next(f)
                       /\ UNCHANGED <<Documents, Schema>>
             [] stmt = "apply" ->
                  IF f.id \notin DOMAIN Documents
                  THEN /\ pc' = next([f EXCEPT !.err = "notfound"]) /\ UNCHANGED coll
                  ELSE /\ Documents' = MapPut(Documents, f.id,
                                          ApplyUpdates(Documents[f.id], PresentData(doc),
                                                       DOMAIN PresentData(doc)))
                       /\ pc' = next([f EXCEPT !.old = Clone(Documents[f.id])])
                       /\ UNCHANGED <<Indexes, Schema>>
             [] stmt = "validate" ->
                  IF f.err # "" \/ ValidateDocument(Schema, Documents[f.id]) = {} THEN skip
                  ELSE /\ Documents' = MapPut(Documents, f.id, f.old)
                       /\ pc' = next([f EXCEPT !.err = "schema"])
                       /\ UNCHANGED <<Indexes, Schema>>
             [] stmt = "unindex" ->
                  IF f.id \notin DOMAIN Documents
                  THEN /\ pc' = next([f EXCEPT !.err = "notfound"]) /\ UNCHANGED coll
                  ELSE /\ Indexes' = updateIndexes(Indexes, Documents[f.id], NilDoc)
                       /\ pc' = next(f)
                       /\ UNCHANGED <<Documents, Schema>>
             [] stmt = "delete" ->
                  IF f.err # "" THEN skip
                  ELSE /\ Documents' = MapDelete(Documents, f.id)
                       /\ pc' = next(f)
                       /\ UNCHANGED <<Indexes, Schema>>
             [] stmt = "build" ->
                  IF f.call.name \in DOMAIN Indexes
                  THEN /\ pc' = next([f EXCEPT !.err = "exists"]) /\ UNCHANGED coll
                  ELSE /\ \E idx \in BuildIndex(Documents, NewIndex(f.call.name, "f")) :
                             Indexes' = MapPut(Indexes, f.call.name, idx)
                       /\ pc' = next(f)
                       /\ UNCHANGED <<Documents, Schema>>
             [] stmt = "drop" ->
                  LET r == DropIndexResult(Live, f.call.name)
                  IN  /\ Indexes' = r.c.Indexes
                      /\ pc' = next([f EXCEPT !.err = r.err])
                      /\ UNCHANGED <<Documents, Schema>>
             [] stmt = "find" ->
                  /\ \E result \in FindOutcomes(Documents, Indexes, f.call.query) :
                        pc' = next([f EXCEPT !.result = result])
                  /\ UNCHANGED coll
             [] stmt = "byid" ->
                  /\ pc' = next([f EXCEPT
                          !.err = IF f.id \in DOMAIN Documents THEN "" ELSE "notfound",
                          !.result = FindByIDResult(Documents, f.id)])
                  /\ UNCHANGED coll
             [] stmt = "count" ->
                  /\ pc' = next([f EXCEPT !.result = <<Count>>])
                  /\ UNCHANGED coll
    /\ UNCHANGED <<ret, disk, wal, Collections, ctx, locks, held>>

\* A collection as NewCollection or an Insert and a CreateIndex leave it, every
\* mutex free and no thread in a call.
ConcThreads == {1, 2}
ConcCollections ==
    {NewCollection(s) : s \in Schemas}
    \cup {r.c : r \in {InsertResult(NewCollection(s), Doc(IdA, [k \in Fields |-> Str(<<"x">>)]),
                                    IdA) : s \in Schemas}}
    \cup UNION {{r.c : r \in CreateIndexResults(
                              InsertResult(NewCollection(s),
                                           Doc(IdA, [k \in Fields |-> Str(<<"x">>)]), IdA).c,
                              "i1", "f")} : s \in Schemas}
InitConc ==
    /\ \E c \in ConcCollections :
          /\ Documents = c.Documents
          /\ Indexes = c.Indexes
          /\ Schema = c.Schema
    /\ ret = Ret("NewCollection", "")
    /\ NoFiles
    /\ wal = NoWAL
    /\ Collections = EmptyMap
    /\ ctx = "live"
    /\ pc = [t \in ConcThreads |-> [Frame(NoCall, 0, {}) EXCEPT !.i = 1]]
    /\ locks = [m \in Mutexes |-> Free]
    /\ held = NoHeld

ConcDocs == {Doc(IdA, [k \in Fields |-> Str(<<"x">>)]), Doc(IdA, [k \in Fields |-> Absent]),
             Doc(EmptyID, [k \in Fields |-> Str(<<"x">>)])}
ConcCalls ==
    {CallOf("Insert", doc, "", NoQuery) : doc \in ConcDocs}
    \cup {CallOf("Update", doc, "", NoQuery) : doc \in {d \in ConcDocs : d.ID = IdA}}
    \cup {CallOf(op, Doc(IdA, [k \in Fields |-> Absent]), "", NoQuery) :
             op \in {"Delete", "FindByID", "Count"}}
    \cup {CallOf(op, NilDoc, "i1", NoQuery) : op \in {"CreateIndex", "DropIndex"}}
    \cup {CallOf("Find", NilDoc, "", Query(<<Filter("f", "eq", Str(<<"x">>))>>, 0, 0))}
NextConc ==
    \/ \E t \in ConcThreads, call \in ConcCalls : Call(t, call)
    \/ \E t \in ConcThreads : LockStep(t)
    \/ \E t \in ConcThreads : DoStep(t)

SpecConc == InitConc /\ [][NextConc]_vars

\* -------------------------------------------------------------- the database
\* Schema.Validate(): the errors the loop over s.Fields can return; the empty
\* set is the nil error.
FieldTypes == {"string", "number", "boolean", "object", "array", "date"}
\* Validate without the test of the reserved name.
ValidateAllowsReserved(s) ==
    IF s.nil THEN {}
    ELSE IF DOMAIN s.Fields = {} THEN {"nofields"}
    ELSE {e \in {"emptyname", "type"} :
            \E fieldName \in DOMAIN s.Fields :
               \/ e = "emptyname" /\ fieldName = ""
               \/ e = "type" /\ s.Fields[fieldName].Type \notin FieldTypes}
Validate(s) ==
    IF s.nil THEN {}
    ELSE IF DOMAIN s.Fields = {} THEN {"nofields"}
    ELSE {e \in {"emptyname", "reserved", "type"} :
            \E fieldName \in DOMAIN s.Fields :
               \/ e = "emptyname" /\ fieldName = ""
               \/ e = "reserved" /\ fieldName = "_id"
               \/ e = "type" /\ s.Fields[fieldName].Type \notin FieldTypes}

\* Database.CreateCollection(name, schema) on db.Collections: [err, collections],
\* err being any error the call can return.
CreateCollectionResults(collections, name, schema) ==
    IF name \in DOMAIN collections THEN {[err |-> "exists", collections |-> collections]}
    ELSE IF Validate(schema) # {}
    THEN {[err |-> e, collections |-> collections] : e \in Validate(schema)}
    ELSE {[err |-> "", collections |-> MapPut(collections, name, schema)]}
\* Database.DropCollection(name)
DropCollectionResult(collections, name) ==
    IF name \notin DOMAIN collections THEN [err |-> "notfound", collections |-> collections]
    ELSE [err |-> "", collections |-> MapDelete(collections, name)]

\* The steps of the storage manager's and the database's calls. The database
\* holds collection "c", whose methods the threads call, and at times a second
\* collection "c2", which is empty and which no thread calls: its mutex is
\* always free, and a save of it is left out.
StoreStep(t) ==
    /\ InCall(t) /\ Instr(t)[1] = "do" /\ Instr(t)[2] \notin CollectionStmts
    /\ LET f == pc[t]
           stmt == Instr(t)[2]
           next(g) == [pc EXCEPT ![t] = [g EXCEPT !.i = f.i + 1]]
       IN  CASE stmt = "get" ->
                  /\ pc' = next([f EXCEPT !.err = IF f.call.name \in DOMAIN Collections
                                                  THEN "" ELSE "notfound"])
                  /\ UNCHANGED <<ret, disk, wal, Collections>>
             [] stmt = "create" ->
                  /\ \E r \in CreateCollectionResults(Collections, f.call.name, NilSchema) :
                        /\ Collections' = r.collections
                        /\ pc' = next([f EXCEPT !.err = r.err])
                  /\ UNCHANGED <<ret, disk, wal>>
             [] stmt = "dropcoll" ->
                  /\ Collections' = DropCollectionResult(Collections, f.call.name).collections
                  /\ pc' = next([f EXCEPT
                          !.err = DropCollectionResult(Collections, f.call.name).err])
                  /\ UNCHANGED <<ret, disk, wal>>
             [] stmt = "save" ->
                  /\ SaveCollection
                  /\ pc' = next(f)
                  /\ UNCHANGED <<wal, Collections>>
             [] stmt = "append" ->
                  /\ wal' = AppendEntry(wal, WALEntry("insert", "c", f.call.doc.ID,
                                                      MarshalJSON(f.call.doc)))
                  /\ pc' = next(f)
                  /\ UNCHANGED <<ret, disk, Collections>>
             [] stmt = "offset" ->
                  /\ pc' = next([f EXCEPT !.result = <<currentOffset(wal)>>])
                  /\ UNCHANGED <<ret, disk, wal, Collections>>
             [] stmt = "checkpoint" ->
                  /\ wal' = [wal EXCEPT !.checkpoint = f.result[1]]
                  /\ pc' = next([f EXCEPT !.result = <<>>])
                  /\ UNCHANGED <<ret, disk, Collections>>
    /\ UNCHANGED <<coll, ctx, locks, held>>

\* The calls that write files or log records, and how many of them the bounds
\* still allow when those in progress are counted.
SaveOps == {"SaveCollection", "SaveDatabase", "SaveAllDatabases"}
InProgress(ops) == Cardinality({u \in DOMAIN pc : InCall(u) /\ pc[u].call.op \in ops})
Allowed(call) ==
    /\ call.op \in SaveOps => saves + InProgress(SaveOps) < MaxSaves
    /\ call.op = "LogInsert" => Len(wal.entries) + InProgress({"LogInsert"}) < MaxWal

\* Database "d" with its collection "c", holding one document, logged and not
\* saved; every mutex free and no thread in a call.
LockDoc == Doc(IdA, [k \in Fields |-> Str(<<"x">>)])
InitLocks ==
    /\ Documents = InsertResult(NewCollection(NilSchema), LockDoc, IdA).c.Documents
    /\ Indexes = InsertResult(NewCollection(NilSchema), LockDoc, IdA).c.Indexes
    /\ Schema = NilSchema
    /\ ret = Ret("NewCollection", "")
    /\ NoFiles
    /\ wal = AppendEntry(LogCreateCollection(LogCreateDatabase(NoWAL), NilSchema),
                         WALEntry("insert", "c", IdA, MarshalJSON(LockDoc)))
    /\ Collections = [n \in {"c"} |-> NilSchema]
    /\ ctx = "live"
    /\ pc = [t \in ConcThreads |-> [Frame(NoCall, 0, {}) EXCEPT !.i = 1]]
    /\ locks = [m \in Mutexes |-> Free]
    /\ held = NoHeld

LockCalls ==
    {CallOf(op, LockDoc, "", NoQuery) : op \in {"Insert", "Delete", "LogInsert"}}
    \cup {CallOf("Find", NilDoc, "", Query(<<Filter("f", "eq", Str(<<"x">>))>>, 0, 0))}
    \cup {CallOf("GetCollection", NilDoc, n, NoQuery) : n \in {"c", "c2"}}
    \cup {CallOf(op, NilDoc, "c2", NoQuery) : op \in {"CreateCollection", "DropCollection"}}
    \cup {CallOf(op, NilDoc, "", NoQuery) : op \in SaveOps \cup {"Checkpoint"}}
NextLocks ==
    \/ \E t \in ConcThreads, call \in LockCalls : Allowed(call) /\ Call(t, call)
    \/ \E t \in ConcThreads : LockStep(t)
    \/ \E t \in ConcThreads : DoStep(t)
    \/ \E t \in ConcThreads : StoreStep(t)

SpecLocks == InitLocks /\ [][NextLocks]_vars

\* --------------------------------------------------------------- the server
\* Collection.Update(id, updates) on a collection as a value, the key _id
\* included: the loop returns at _id with the keys it met before it applied.
UpdateResults(c, id, updates) ==
    IF id \in DOMAIN c.Documents /\ "_id" \in DOMAIN updates
    THEN {[err |-> "_id",
           c |-> [c EXCEPT !.Documents =
                     MapPut(c.Documents, id, ApplyUpdates(c.Documents[id], updates, before))]] :
             before \in SUBSET (DOMAIN updates \ {"_id"})}
    ELSE {UpdateResult(c, id, updates)}

\* What a handler does after the collection's method returned: its error, or
\* the collection saved with SaveCollection. token is the request's context.
Handled(tool, token, id, r) ==
    /\ ctx' = token
    /\ Documents' = r.c.Documents
    /\ Indexes' = r.c.Indexes
    /\ Schema' = r.c.Schema
    /\ ret' = [Ret(tool, r.err) EXCEPT !.id = id]
    /\ IF r.err # "" THEN UNCHANGED disk
       ELSE SaveFiles(r.c.Documents, r.c.Indexes, r.c.Schema)
    /\ UNCHANGED Collections
\* GetCollection failed.
NoCollection(tool, token) ==
    /\ ctx' = token
    /\ ret' = Ret(tool, "notfound")
    /\ UNCHANGED <<coll, disk, Collections>>

\* insertDocumentTool(ctx, req, input): a string under _id becomes the id and
\* leaves the map; any other _id stays in the data.
insertDocumentTool(token, input) ==
    IF ~HasCollection THEN NoCollection("insert_document", token)
    ELSE LET ok == "_id" \in DOMAIN input /\ input["_id"][1] = "string"
             doc == Doc(IF ok THEN input["_id"][2] ELSE EmptyID,
                        IF ok THEN [k \in DOMAIN input \ {"_id"} |-> input[k]] ELSE input)
         IN  /\ Cardinality(DOMAIN Documents) < MaxDocs
             /\ \E id \in InsertIDs(Live, doc) :
                   Handled("insert_document", token, IF doc.ID = EmptyID THEN id ELSE doc.ID,
                           InsertResult(Live, doc, id))
\* updateDocumentTool(ctx, req, input)
updateDocumentTool(token, id, updates) ==
    IF ~HasCollection THEN NoCollection("update_document", token)
    ELSE \E r \in UpdateResults(Live, id, updates) : Handled("update_document", token, id, r)
\* deleteDocumentTool(ctx, req, input)
deleteDocumentTool(token, id) ==
    IF ~HasCollection THEN NoCollection("delete_document", token)
    ELSE Handled("delete_document", token, id, DeleteResult(Live, id))

\* Database.CreateCollection(name, schema) and DropCollection(name). The
\* documents of collection "c" are in Documents, Indexes and Schema; the other
\* collections stay empty.
CreateCollection(name, schema) ==
    /\ \E r \in CreateCollectionResults(Collections, name, schema) :
          /\ Collections' = r.collections
          /\ ret' = [Ret("CreateCollection", r.err) EXCEPT !.result = <<name, schema>>]
          /\ IF r.err = "" /\ name = "c"
             THEN /\ Documents' = EmptyMap
                  /\ Indexes' = NewCollectionIndexes
                  /\ Schema' = schema
             ELSE UNCHANGED coll
    /\ UNCHANGED <<disk, ctx>>
DropCollection(name) ==
    /\ Collections' = DropCollectionResult(Collections, name).collections
    /\ ret' = [Ret("DropCollection", DropCollectionResult(Collections, name).err)
                  EXCEPT !.result = <<name>>]
    /\ IF name = "c" /\ HasCollection
       THEN /\ Documents' = EmptyMap
            /\ Indexes' = EmptyMap
            /\ Schema' = NilSchema
       ELSE UNCHANGED coll
    /\ UNCHANGED <<disk, ctx>>

\* A server on a new database: no collection, no file.
InitServer ==
    /\ Documents = EmptyMap
    /\ Indexes = EmptyMap
    /\ Schema = NilSchema
    /\ ret = Ret("NewServer", "")
    /\ NoFiles
    /\ Idle

\* The requests: documents with and without _id (a string, the empty string, a
\* number), update maps with and without _id, and schemas, some of them invalid.
Tokens == {"live", "cancelled"}
ServerValues == {Str(<<"x">>)}
ServerInputs ==
    [Fields -> ServerValues]
    \cup {[k \in Fields \cup {"_id"} |-> IF k = "_id" THEN v ELSE Str(<<"x">>)] :
             v \in {Str(IdA), Str(EmptyID), Num(1)}}
SchemaOf(names, type) == [nil |-> FALSE,
                          Fields |-> [k \in names |-> [Type |-> type, Required |-> FALSE]]]
ServerSchemas ==
    {NilSchema, SchemaReqF, SchemaOf({}, "string"), SchemaOf({""}, "string"),
     SchemaOf({"_id"}, "string"), SchemaOf({"f"}, "int"), SchemaOf({"", "_id"}, "int")}
CollectionNames == {"c", "c2"}
NextServer ==
    /\ UNCHANGED <<wal, pc, locks, held>>
    /\ \/ \E token \in Tokens, input \in ServerInputs : insertDocumentTool(token, input)
       \/ \E token \in Tokens, id \in {IdA}, updates \in UpdateMapsOf(ServerValues) :
             updateDocumentTool(token, id, updates)
       \/ \E token \in Tokens, id \in {IdA} : deleteDocumentTool(token, id)
       \/ \E name \in CollectionNames, schema \in ServerSchemas : CreateCollection(name, schema)
       \/ \E name \in CollectionNames : DropCollection(name)

SpecServer == InitServer /\ [][NextServer]_vars

\* ------------------------------------------------------------- failed saves
\* SaveCollection when NewBinaryCollectionWriter returns an error (os.OpenFile
\* fails): collection.meta.json is already written, nothing else is, and the
\* error is returned.
SaveCollectionFails ==
    /\ saves < MaxSaves
    /\ saves' = saves + 1
    /\ metaFile' = [exists |-> TRUE, Schema |-> Schema,
                    Indexes |-> [n \in DOMAIN Indexes |-> Indexes[n].FieldName],
                    Format |-> "binary"]
    /\ ret' = Ret("SaveCollection", "writer")
    /\ UNCHANGED <<Documents, Indexes, Schema, dataFile, idxFile, indexFiles>>

NextFault ==
    /\ UNCHANGED rest
    /\ \/ \E doc \in StoreDocs : Insert(doc) /\ UNCHANGED disk
       \/ \E id \in IDs : Delete(id) /\ UNCHANGED disk
       \/ \E n \in IndexNames, f \in IndexFields : CreateIndex(n, f) /\ UNCHANGED disk
       \/ SaveCollection
       \/ SaveCollectionFails
       \/ LoadCollection

SpecFault == Init /\ [][NextFault]_vars

\* ------------------------------------------------- handlers and failed saves
\* What a handler does when the collection's method succeeded and the
\* SaveCollection after it returns an error (the writer could not be opened,
\* collection.meta.json is already written): it returns the error.
SaveFailed(tool, token, id, r) ==
    /\ r.err = ""
    /\ saves < MaxSaves
    /\ saves' = saves + 1
    /\ ctx' = token
    /\ Documents' = r.c.Documents
    /\ Indexes' = r.c.Indexes
    /\ Schema' = r.c.Schema
    /\ ret' = [Ret(tool, "writer") EXCEPT !.id = id]
    /\ metaFile' = [exists |-> TRUE, Schema |-> r.c.Schema,
                    Indexes |-> [n \in DOMAIN r.c.Indexes |-> r.c.Indexes[n].FieldName],
                    Format |-> "binary"]
    /\ UNCHANGED <<dataFile, idxFile, indexFiles, Collections>>

\* The handlers with a save that fails.
insertDocumentToolSaveFails(token, input) ==
    /\ HasCollection
    /\ Cardinality(DOMAIN Documents) < MaxDocs
    /\ LET ok == "_id" \in DOMAIN input /\ input["_id"][1] = "string"
           doc == Doc(IF ok THEN input["_id"][2] ELSE EmptyID,
                      IF ok THEN [k \in DOMAIN input \ {"_id"} |-> input[k]] ELSE input)
       IN  \E id \in InsertIDs(Live, doc) :
              SaveFailed("insert_document", token, IF doc.ID = EmptyID THEN id ELSE doc.ID,
                         InsertResult(Live, doc, id))
updateDocumentToolSaveFails(token, id, updates) ==
    /\ HasCollection
    /\ \E r \in UpdateResults(Live, id, updates) : SaveFailed("update_document", token, id, r)
deleteDocumentToolSaveFails(token, id) ==
    /\ HasCollection
    /\ SaveFailed("delete_document", token, id, DeleteResult(Live, id))

\* createIndexTool(ctx, req, input), with a save that succeeds or fails.
createIndexTool(token, indexName, fieldName) ==
    IF ~HasCollection THEN NoCollection("create_index", token)
    ELSE \E r \in CreateIndexResults(Live, indexName, fieldName) :
            \/ Handled("create_index", token, EmptyID, r)
            \/ SaveFailed("create_index", token, EmptyID, r)

\* createCollectionTool(ctx, req, input): CreateCollection, then SaveDatabase,
\* which saves every collection of the database or fails before it wrote one.
createCollectionTool(token, name, schema, saved) ==
    /\ ctx' = token
    /\ \E r \in CreateCollectionResults(Collections, name, schema) :
          /\ Collections' = r.collections
          /\ IF r.err = "" /\ name = "c"
             THEN /\ Documents' = EmptyMap
                  /\ Indexes' = NewCollectionIndexes
                  /\ Schema' = schema
             ELSE UNCHANGED coll
          /\ IF r.err # ""
             THEN /\ ret' = [Ret("create_collection", r.err) EXCEPT !.result = <<name, schema>>]
                  /\ UNCHANGED disk
             ELSE /\ ret' = [Ret("create_collection", IF saved THEN "" ELSE "writer")
                                EXCEPT !.result = <<name, schema>>]
                  /\ IF saved /\ "c" \in DOMAIN r.collections
                     THEN IF name = "c"
                          THEN SaveFiles(EmptyMap, NewCollectionIndexes, schema)
                          ELSE SaveFiles(Documents, Indexes, Schema)
                     ELSE UNCHANGED disk

NextHandlers ==
    /\ UNCHANGED <<wal, pc, locks, held>>
    /\ \/ \E token \in Tokens, input \in ServerInputs : insertDocumentTool(token, input)
       \/ \E token \in Tokens, input \in ServerInputs : insertDocumentToolSaveFails(token, input)
       \/ \E token \in Tokens, id \in {IdA}, updates \in UpdateMapsOf(ServerValues) :
             updateDocumentTool(token, id, updates)
       \/ \E token \in Tokens, id \in {IdA}, updates \in UpdateMapsOf(ServerValues) :
             updateDocumentToolSaveFails(token, id, updates)
       \/ \E token \in Tokens, id \in {IdA} : deleteDocumentTool(token, id)
       \/ \E token \in Tokens, id \in {IdA} : deleteDocumentToolSaveFails(token, id)
       \/ \E token \in Tokens, n \in IndexNames, f \in IndexFields :
             createIndexTool(token, n, f)
       \/ \E token \in Tokens, name \in CollectionNames, schema \in {NilSchema, SchemaReqF},
             saved \in BOOLEAN : createCollectionTool(token, name, schema, saved)
       \/ \E name \in CollectionNames : DropCollection(name)

SpecHandlers == InitServer /\ [][NextHandlers]_vars

\* ------------------------------------------------------ saving the database
\* StorageManager.SaveDatabase(db): db.meta.json, then SaveCollection of every
\* collection of db.Collections. Nothing is removed from the directory.
SaveDatabase ==
    /\ IF HasCollection THEN SaveFiles(Documents, Indexes, Schema) ELSE UNCHANGED disk
    /\ ret' = Ret("SaveDatabase", "")
    /\ UNCHANGED <<coll, Collections, ctx>>
\* StorageManager.LoadDatabase(dbName): LoadCollection of every directory of
\* the database's directory; the directory of "c" is there once a save made it.
\* [err, names]: the names of db.Collections.
LoadDatabaseResult(meta, data, idx, files) ==
    IF ~meta.exists THEN [err |-> "", names |-> {}]
    ELSE IF LoadCollectionResult(meta, data, idx, files).err # ""
    THEN [err |-> LoadCollectionResult(meta, data, idx, files).err, names |-> {}]
    ELSE [err |-> "", names |-> {"c"}]
LoadDatabase ==
    /\ LET loaded == LoadDatabaseResult(metaFile, dataFile, idxFile, indexFiles)
       IN  ret' = [Ret("LoadDatabase", loaded.err) EXCEPT !.result = <<loaded.names>>]
    /\ UNCHANGED <<coll, disk, Collections, ctx>>

NextDB ==
    /\ UNCHANGED <<wal, pc, locks, held>>
    /\ \/ \E schema \in Schemas : CreateCollection("c", schema)
       \/ DropCollection("c")
       \/ \E doc \in StoreDocs : HasCollection /\ Insert(doc) /\ UNCHANGED <<disk, Collections, ctx>>
       \/ \E id \in IDs : HasCollection /\ Delete(id) /\ UNCHANGED <<disk, Collections, ctx>>
       \/ SaveDatabase
       \/ LoadDatabase

SpecDB == InitServer /\ [][NextDB]_vars

\* ------------------------------------------------------- concurrent saves
\* Two threads save the same collection at the same time. SaveCollection takes
\* the collection's lock for reading, which both can hold; each call has its own
\* BinaryCollectionWriter (its own file position, offset and offset index) on
\* the one collection.data. A thread's frame: the step it is at, its writer
\* without the file's bytes, and the documents it has yet to write, in the
\* order its range over coll.Documents visits them.
Savers == {1, 2}
NoWriter == [pos |-> 0, offset |-> 0, index |-> EmptyMap]
SaverFrame(at, w, order) == [at |-> at, w |-> w, order |-> order]
Goto(t, at) == pc' = [pc EXCEPT ![t].at = at]

\* coll.mu.RLock()
SaverRLock(t) ==
    /\ pc[t].at = "start"
    /\ CanRLock(locks["c"])
    /\ locks' = [locks EXCEPT !["c"].r = @ \cup {t}]
    /\ Goto(t, "meta")
    /\ UNCHANGED <<coll, ret, disk, wal, Collections, ctx, held>>
\* sm.writeJSON(metaPath, meta)
SaverMeta(t) ==
    /\ pc[t].at = "meta"
    /\ saves' = saves + 1
    /\ metaFile' = [exists |-> TRUE, Schema |-> Schema,
                    Indexes |-> [n \in DOMAIN Indexes |-> Indexes[n].FieldName],
                    Format |-> "binary"]
    /\ Goto(t, "open")
    /\ UNCHANGED <<coll, ret, dataFile, idxFile, indexFiles, wal, Collections, ctx,
                   locks, held>>
\* NewBinaryCollectionWriter
SaverOpen(t) ==
    /\ pc[t].at = "open"
    /\ LET w == NewBinaryCollectionWriter(dataFile, idxFile)
       IN  /\ dataFile' = [exists |-> TRUE, bytes |-> w.bytes]
           /\ \E order \in Perms(DOMAIN Documents) :
                 pc' = [pc EXCEPT ![t] =
                           SaverFrame("write",
                                      [pos |-> w.pos, offset |-> w.offset,
                                       index |-> w.index], order)]
    /\ UNCHANGED <<coll, ret, metaFile, idxFile, indexFiles, saves, wal, Collections,
                   ctx, locks, held>>
\* writer.WriteDocument(doc), one turn of the loop
SaverWrite(t) ==
    /\ pc[t].at = "write" /\ pc[t].order # <<>>
    /\ LET f == pc[t]
           w == WriteDocument([bytes |-> dataFile.bytes, pos |-> f.w.pos,
                               offset |-> f.w.offset, index |-> f.w.index],
                              Documents[Head(f.order)])
       IN  /\ dataFile' = [dataFile EXCEPT !.bytes = w.bytes]
           /\ pc' = [pc EXCEPT ![t] =
                        SaverFrame("write",
                                   [pos |-> w.pos, offset |-> w.offset, index |-> w.index],
                                   Tail(f.order))]
    /\ UNCHANGED <<coll, ret, metaFile, idxFile, indexFiles, saves, wal, Collections,
                   ctx, locks, held>>
\* writer.Flush after the loop
SaverFlush(t) ==
    /\ pc[t].at = "write" /\ pc[t].order = <<>>
    /\ idxFile' = SaveOffsetIndex(pc[t].w.index)
    /\ Goto(t, "indexes")
    /\ UNCHANGED <<coll, ret, metaFile, dataFile, indexFiles, saves, wal, Collections,
                   ctx, locks, held>>
\* idx.SaveToDisk for every index
SaverIndexes(t) ==
    /\ pc[t].at = "indexes"
    /\ indexFiles' = [n \in DOMAIN indexFiles \cup DOMAIN Indexes |->
                         IF n \in DOMAIN Indexes THEN Serialize(Indexes[n])
                         ELSE indexFiles[n]]
    /\ Goto(t, "close")
    /\ UNCHANGED <<coll, ret, metaFile, dataFile, idxFile, saves, wal, Collections,
                   ctx, locks, held>>
\* The deferred writer.Close, which flushes once more, then the deferred
\* coll.mu.RUnlock().
SaverClose(t) ==
    /\ pc[t].at = "close"
    /\ idxFile' = SaveOffsetIndex(pc[t].w.index)
    /\ locks' = [locks EXCEPT !["c"].r = @ \ {t}]
    /\ pc' = [pc EXCEPT ![t] = SaverFrame("done", NoWriter, <<>>)]
    /\ ret' = Ret("SaveCollection", "")
    /\ UNCHANGED <<coll, metaFile, dataFile, indexFiles, saves, wal, Collections, ctx,
                   held>>

\* A new collection with no file; both threads are about to call SaveCollection.
InitSavers ==
    /\ Documents = EmptyMap
    /\ Indexes = NewCollectionIndexes
    /\ Schema = NilSchema
    /\ ret = Ret("NewCollection", "")
    /\ NoFiles
    /\ wal = NoWAL
    /\ Collections = EmptyMap
    /\ ctx = "live"
    /\ held = NoHeld
    /\ locks = [m \in {"c"} |-> Free]
    /\ pc = [t \in Savers |-> SaverFrame("start", NoWriter, <<>>)]

\* The collection is filled before the first SaveCollection is called (Insert
\* takes the collection's lock for writing).
NextSavers ==
    \/ /\ \A t \in Savers : pc[t].at = "start"
       /\ CanLock(locks["c"])
       /\ \E doc \in StoreDocs : Insert(doc)
       /\ UNCHANGED <<disk, rest>>
    \/ \E t \in Savers : SaverRLock(t)
    \/ \E t \in Savers : SaverMeta(t)
    \/ \E t \in Savers : SaverOpen(t)
    \/ \E t \in Savers : SaverWrite(t)
    \/ \E t \in Savers : SaverFlush(t)
    \/ \E t \in Savers : SaverIndexes(t)
    \/ \E t \in Savers : SaverClose(t)

SpecSavers == InitSavers /\ [][NextSavers]_vars

\* collection.data and collection.idx after one SaveCollection that writes the
\* documents in the order given.
SavedFiles(files, documents, order) ==
    LET w == WriteDocuments(NewBinaryCollectionWriter(files.data, files.idx),
                            documents, order)
    IN  [data |-> [exists |-> TRUE, bytes |-> w.bytes], idx |-> SaveOffsetIndex(w.index)]
\* The files after two SaveCollection calls, one after the other, of a
\* collection that had no file.
TwoSavesInTurn(documents) ==
    {SavedFiles(SavedFiles([data |-> [exists |-> FALSE, bytes |-> <<>>],
                            idx |-> [exists |-> FALSE, records |-> {}]],
                           documents, first),
                documents, second) :
       first \in Perms(DOMAIN documents), second \in Perms(DOMAIN documents)}

\* ---------------------------------------------------------------- ownership
\* The caller of a collection keeps pointers. held.refs are the ids whose
\* stored *Document the caller still points at; held.copies are the documents
\* it owns alone. Insert stores the pointer it is given (c.Documents[doc.ID] =
\* doc); FindByID and Find return Clone()s; Update's rollback stores a clone in
\* place of the document, and Delete takes the document out of the map.
OwnInsert(doc) ==
    /\ Insert(doc)
    /\ held' = IF ret'.err = "" THEN [held EXCEPT !.refs = @ \cup {ret'.id}] ELSE held
OwnFindByID(id) ==
    /\ FindByID(id)
    /\ held' = [held EXCEPT !.copies = @ \cup {ret'.result[i] : i \in DOMAIN ret'.result}]
OwnFind(query) ==
    /\ Find(query)
    /\ held' = [held EXCEPT !.copies = @ \cup {ret'.result[i] : i \in DOMAIN ret'.result}]
OwnUpdate(id, updates) ==
    /\ Update(id, updates)
    /\ held' = IF ret'.err = "schema" THEN [held EXCEPT !.refs = @ \ {id}] ELSE held
OwnDelete(id) ==
    /\ Delete(id)
    /\ held' = IF ret'.err = "" THEN [held EXCEPT !.refs = @ \ {id}] ELSE held

\* The caller assigns doc.Data[key] = value through a pointer it holds: to the
\* document it handed to Insert, or to a document a read returned.
SetField(id, key, value) ==
    /\ id \in held.refs
    /\ Documents' = [Documents EXCEPT ![id].Data[key] = value]
    /\ ret' = [Ret("SetField", "") EXCEPT !.id = id]
    /\ UNCHANGED <<Indexes, Schema, held>>
SetCopyField(doc, key, value) ==
    /\ doc \in held.copies
    /\ held' = [held EXCEPT !.copies = (@ \ {doc}) \cup {[doc EXCEPT !.Data[key] = value]}]
    /\ ret' = [Ret("SetCopyField", "") EXCEPT !.id = doc.ID]
    /\ UNCHANGED coll

OwnValues == {Str(<<"x">>), Str(<<"y">>)}
OwnDocs == {doc \in InsertDocsOf(OwnValues) : doc.ID # IdB}
NextOwn ==
    /\ UNCHANGED <<disk, wal, Collections, ctx, pc, locks>>
    /\ \/ \E doc \in OwnDocs : OwnInsert(doc)
       \/ \E id \in {IdA} : OwnFindByID(id)
       \/ \E query \in {NoQuery, Query(<<Filter("f", "eq", Str(<<"x">>))>>, 0, 0)} :
             OwnFind(query)
       \/ \E id \in {IdA}, updates \in [Fields -> OwnValues \cup {Num(1)}] :
             OwnUpdate(id, updates)
       \/ \E id \in {IdA} : OwnDelete(id)
       \/ \E n \in {"i1"}, f \in Fields : CreateIndex(n, f) /\ UNCHANGED held
       \/ \E id \in UserIDs \cup UUIDs, value \in OwnValues : SetField(id, "f", value)
       \/ \E doc \in held.copies, value \in OwnValues : SetCopyField(doc, "f", value)

SpecOwn == Init /\ [][NextOwn]_vars

\* --------------------------------------------------------------- properties
Range(seq) == {seq[i] : i \in 1..Len(seq)}
StoredDocs == {Documents[k] : k \in DOMAIN Documents}
\* The stored documents that have field f with the stringified value key.
DocsWithKey(f, key) ==
    {D \in StoredDocs : GetValue(D, f)[2] /\ Stringify(GetValue(D, f)[1]) = key}

\* C1: in every reachable state the _id index exists and, for every stored
\* document D, has an entry under D.id that leads back to D.
C1_IdIndexCoversDocuments ==
    /\ "_id" \in DOMAIN Indexes
    /\ \A k \in DOMAIN Documents :
          LET D == Documents[k]
              data == Indexes["_id"].Data
          IN  /\ D.ID \in DOMAIN data
              /\ data[D.ID] \in DOMAIN Documents
              /\ Documents[data[D.ID]] = D

C1_Witness ==
    /\ ret.op = "Update" /\ ret.err = ""
    /\ Cardinality(DOMAIN Documents) = 2
    /\ "i1" \in DOMAIN Indexes

\* C2: every user index on field F has, for every stored document D with field F,
\* an entry under stringify(D.data[F]) that maps to D.id or, when other stored
\* documents have the same stringified value, to one of those documents.
C2_UserIndexCoversDocuments ==
    \A n \in DOMAIN Indexes \ {"_id"} : \A D \in StoredDocs :
        LET I == Indexes[n]
            got == GetValue(D, I.FieldName)
            key == Stringify(got[1])
        IN  got[2] =>
              /\ key \in DOMAIN I.Data
              /\ I.Data[key] \in {E.ID : E \in DocsWithKey(I.FieldName, key)}

\* C3: SaveCollection followed at once by LoadCollection (a database with this one
\* collection saved and loaded) succeeds and yields the same documents by id, the
\* same schema and the same set of index names.
C3_SaveLoadRoundTrip ==
    [][(ret.op = "SaveCollection" /\ ret'.op = "LoadCollection") =>
          /\ ret'.err = ""
          /\ ret'.result[1].Documents = Documents
          /\ ret'.result[1].Schema = Schema
          /\ DOMAIN ret'.result[1].Indexes = DOMAIN Indexes]_vars

\* C4: an Update that fails schema validation leaves FindByID(id) returning the
\* pre-image and leaves every index as it was.
C4_FailedUpdateKeepsPreImage ==
    [][(ret'.op = "Update" /\ ret'.err = "schema") =>
          /\ ret'.id \in DOMAIN Documents
          /\ FindByIDResult(Documents', ret'.id) = <<Clone(Documents[ret'.id])>>
          /\ Indexes' = Indexes]_vars

C4_Witness ==
    /\ ret.op = "Update" /\ ret.err = "schema"
    /\ ret.id \in DOMAIN Documents
    /\ "i1" \in DOMAIN Indexes

\* C5: an Update whose updates map contains the key _id returns an error and
\* leaves the stored documents and every index unchanged, whatever other keys
\* the map has.
C5_UpdateOfIdChangesNothing ==
    [][\A id \in IDs, updates \in UpdateMapsOf(FValues) :
          (Update(id, updates) /\ "_id" \in DOMAIN updates) =>
             /\ ret'.err # ""
             /\ Documents' = Documents
             /\ Indexes' = Indexes]_vars

\* C6: an Insert whose id is already in the collection returns an error and
\* changes neither Documents nor any index; and no two stored documents share
\* an id.
C6_DuplicateInsertRejected ==
    /\ [](\A k \in DOMAIN Documents : Documents[k].ID = k)
    /\ [][(ret'.op = "Insert" /\ ret'.id \in DOMAIN Documents) =>
             /\ ret'.err = "exists"
             /\ Documents' = Documents
             /\ Indexes' = Indexes]_vars

C6_Witness ==
    /\ ret.op = "Insert" /\ ret.err = "exists"
    /\ Cardinality(DOMAIN Documents) = 2

\* doc lacks a required field of schema s or has a field of s of the wrong type.
ViolatesSchema(s, doc) ==
    \E f \in DOMAIN s.Fields :
        \/ s.Fields[f].Required /\ doc.Data[f] = Absent
        \/ doc.Data[f] # Absent /\ doc.Data[f][1] # s.Fields[f].Type

\* C7: with a schema, an Insert of a document that lacks a required field or has
\* a schema field of the wrong type returns an error and changes neither
\* Documents nor any index, so Find with no filters returns what it did before.
C7_SchemaViolationRejected ==
    [][\A doc \in InsertDocsOf(FValues) :
          (Insert(doc) /\ ~Schema.nil /\ ViolatesSchema(Schema, doc)) =>
             /\ ret'.err # ""
             /\ Documents' = Documents
             /\ Indexes' = Indexes
             /\ FindOutcomes(Documents', Indexes', NoQuery)
                  = FindOutcomes(Documents, Indexes, NoQuery)]_vars

C7_Witness ==
    /\ ret.op = "Insert" /\ ret.err = "schema"
    /\ Cardinality(DOMAIN Documents) >= 1

\* C8: a successful Insert of a document with an empty id assigns a non-empty id
\* that no stored document had, raises Count by exactly 1, and afterwards
\* FindByID(that id) and every Find with no filters return a document with that
\* id and the inserted data.
C8_InsertAssignsFreshId ==
    [][\A doc \in InsertDocsOf(FValues) :
          (Insert(doc) /\ doc.ID = EmptyID /\ ret'.err = "") =>
             /\ ret'.id # EmptyID
             /\ ret'.id \notin DOMAIN Documents
             /\ Cardinality(DOMAIN Documents') = Count + 1
             /\ FindByIDResult(Documents', ret'.id) = <<Doc(ret'.id, doc.Data)>>
             /\ \A r \in FindOutcomes(Documents', Indexes', NoQuery) :
                   Doc(ret'.id, doc.Data) \in Range(r)]_vars

C8_Witness ==
    /\ ret.op = "Insert" /\ ret.err = "" /\ ret.id \in UUIDs
    /\ Cardinality(DOMAIN Documents) = 2

\* The first filter of q is an eq on a field some index covers.
IndexedEq(q) ==
    /\ Len(q.Filters) > 0
    /\ q.Filters[1].Operator = "eq"
    /\ \E n \in DOMAIN Indexes : Indexes[n].FieldName = q.Filters[1].Field

\* C9: a Find whose first filter is an eq on an indexed field is exact with
\* respect to a full scan: every returned document satisfies all filters, and
\* the result is empty only if no stored document satisfies all filters.
C9_IndexedFindIsExact ==
    (ret.op = "Find" /\ IndexedEq(ret.query)) =>
       /\ \A d \in Range(ret.result) : matchesAllFilters(d, ret.query.Filters)
       /\ ret.result = <<>> =>
             ~\E D \in StoredDocs : matchesAllFilters(D, ret.query.Filters)

\* C10: for a fixed collection state and a fixed query, every call of Find
\* returns the same set of documents, also when several indexes cover the field of
\* the first eq filter and several stored documents share its value. Stated for
\* two calls in a row (Find changes nothing in between) of a query without skip
\* and limit, which cut the list at a position that depends on the map order.
C10_FindIsDeterministic ==
    [][(/\ ret.op = "Find" /\ ret'.op = "Find" /\ ret'.query = ret.query
        /\ ret.query.Skip = 0 /\ ret.query.Limit = 0) =>
          Range(ret'.result) = Range(ret.result)]_vars

\* The elements of M from position skip on, at most limit of them when limit > 0;
\* a skip or limit that is not positive counts for nothing.
PageOf(M, skip, limit) ==
    LET s == IF skip > 0 THEN skip ELSE 0
        left == IF Len(M) > s THEN Len(M) - s ELSE 0
        n == IF limit > 0 /\ limit < left THEN limit ELSE left
    IN  [i \in 1..n |-> M[s + i]]

\* C11: Find returns the page of the list M of matching documents (in some
\* iteration order of the collection) that skip and limit select: nothing when
\* skip >= |M|, else M from position skip on, cut to limit when limit > 0; so
\* never more than limit documents when limit > 0.
C11_SkipThenLimit ==
    ret.op = "Find" =>
       /\ \E order \in Perms(DOMAIN Documents) :
             ret.result = PageOf(FilterDocs(Documents, order, ret.query.Filters),
                                 ret.query.Skip, ret.query.Limit)
       /\ ret.query.Limit > 0 => Len(ret.result) <= ret.query.Limit

C11_Witness ==
    /\ ret.op = "Find" /\ ret.query.Skip = 1 /\ ret.query.Limit = 1
    /\ Cardinality(DOMAIN Documents) = 3
    /\ Len(ret.result) = 1

\* The comparison of two numbers that operator op asks for.
NumericHolds(op, a, b) ==
    CASE op = "gt" -> a > b
      [] op = "gte" -> a >= b
      [] op = "lt" -> a < b
      [] op = "lte" -> a <= b

\* C12: a Find with the single filter "f op n", op one of gt, gte, lt, lte and n a
\* number, returns exactly the stored documents whose numeric f compares to n as
\* op asks, whatever the numbers of digits.
C12_NumericOrder ==
    (/\ ret.op = "Find" /\ Len(ret.query.Filters) = 1
     /\ ret.query.Filters[1].Operator \in OrderOps
     /\ ret.query.Filters[1].Value[1] = "number"
     /\ ret.query.Skip = 0 /\ ret.query.Limit = 0) =>
       Range(ret.result) =
          {Clone(D) : D \in {E \in StoredDocs :
              /\ E.Data[ret.query.Filters[1].Field][1] = "number"
              /\ NumericHolds(ret.query.Filters[1].Operator,
                              E.Data[ret.query.Filters[1].Field][2],
                              ret.query.Filters[1].Value[2])}}

\* C13: a successful Delete(id) removes the document and leaves, in every index,
\* each entry that led to another stored document's id where it was.
C13_DeleteKeepsOtherEntries ==
    [][(ret'.op = "Delete" /\ ret'.err = "") =>
          /\ ret'.id \notin DOMAIN Documents'
          /\ \A n \in DOMAIN Indexes : \A k \in DOMAIN Indexes[n].Data :
                Indexes[n].Data[k] \in DOMAIN Documents' =>
                   /\ n \in DOMAIN Indexes'
                   /\ k \in DOMAIN Indexes'[n].Data
                   /\ Indexes'[n].Data[k] = Indexes[n].Data[k]]_vars

\* C14: FindByID, Update and Delete of an id that is not stored return a not-found
\* error (FindByID no document) and change neither Documents nor any index.
C14_MissingIdIsNotFound ==
    [][(ret'.op \in {"FindByID", "Update", "Delete"}
        /\ ret'.id \notin DOMAIN Documents) =>
          /\ ret'.err = "notfound"
          /\ ret'.result = <<>>
          /\ Documents' = Documents
          /\ Indexes' = Indexes]_vars

C14_Witness ==
    /\ ret.op = "Delete" /\ ret.err = "notfound"
    /\ Cardinality(DOMAIN Documents) >= 1
    /\ "i1" \in DOMAIN Indexes

\* C15: CreateIndex with the name of an existing index (_id included) is rejected
\* and changes no index; every index is stored under its own name.
C15_DuplicateIndexRejected ==
    /\ [](\A n \in DOMAIN Indexes : Indexes[n].Name = n)
    /\ [][\A n \in IndexNames, f \in IndexFields :
             (CreateIndex(n, f) /\ n \in DOMAIN Indexes) =>
                /\ ret'.err = "exists"
                /\ Indexes' = Indexes
                /\ Documents' = Documents]_vars

C15_Witness ==
    /\ ret.op = "CreateIndex" /\ ret.err = "exists"
    /\ "i1" \in DOMAIN Indexes
    /\ Indexes["i1"].Data # EmptyMap

\* C16: right after a successful CreateIndex(n, f) the index n is on f, has an entry
\* under the stringified f of every stored document that has f, and each of its
\* entries leads to a stored document whose stringified f is the entry's key (so
\* a document without f adds none).
C16_NewIndexCoversDocuments ==
    [][\A n \in IndexNames, f \in IndexFields :
          (CreateIndex(n, f) /\ ret'.err = "") =>
             LET I == Indexes'[n]
             IN  /\ I.FieldName = f
                 /\ \A D \in StoredDocs :
                       GetValue(D, f)[2] => Stringify(GetValue(D, f)[1]) \in DOMAIN I.Data
                 /\ \A k \in DOMAIN I.Data :
                       \E D \in DocsWithKey(f, k) : D.ID = I.Data[k]]_vars

C16_Witness ==
    /\ ret.op = "CreateIndex" /\ ret.err = ""
    /\ "i1" \in DOMAIN Indexes
    /\ Cardinality(DOMAIN Indexes["i1"].Data) = 1
    /\ Cardinality(DOMAIN Documents) = 2
    /\ \E D \in StoredDocs : D.Data["f"] = Absent

\* C17: DropIndex of _id or of an unknown name returns an error and changes no
\* index, and the _id index is there in every reachable state.
C17_IdIndexCannotBeDropped ==
    /\ []("_id" \in DOMAIN Indexes)
    /\ [][\A n \in IndexNames :
             (DropIndex(n) /\ (n = "_id" \/ n \notin DOMAIN Indexes)) =>
                /\ ret'.err # ""
                /\ Indexes' = Indexes]_vars

C17_Witness ==
    /\ ret.op = "DropIndex" /\ ret.err = "reserved"
    /\ "i1" \in DOMAIN Indexes

\* The positions of the data file that hold the payload of the record of entry.
PayloadRange(entry) ==
    (entry.Offset + DocEntryHeaderSize + 1)
       .. (entry.Offset + DocEntryHeaderSize + entry.CompressedSize)

\* C18: when a byte of the payload of an intact record changes, ReadDocument of
\* that document fails on the checksum (before any decompression) and returns no
\* document, and ReadDocument of every document whose payload does not hold the
\* byte returns what it returned before.
C18_ChecksumGuardsPayload ==
    /\ []((ret.op = "ReadDocument" /\ ret.err # "") => ret.result = <<>>)
    /\ [][ret'.op = "Corrupt" =>
            LET index == LoadOffsetIndex(idxFile)
                i == CHOOSE j \in 1..Len(dataFile.bytes) :
                        dataFile'.bytes[j] # dataFile.bytes[j]
            IN  \A id \in DOMAIN index :
                   LET before == ReadDocument(dataFile.bytes, index[id])
                       after == ReadDocument(dataFile'.bytes, index[id])
                   IN  IF i \in PayloadRange(index[id])
                       THEN before.ok => (~after.ok /\ after.err = "checksum")
                       ELSE after = before]_vars

C18_Witness ==
    /\ ret.op = "ReadDocument" /\ ret.err = "checksum"
    /\ \E id \in DOMAIN LoadOffsetIndex(idxFile) :
          /\ id # ret.id
          /\ ReadDocument(dataFile.bytes, LoadOffsetIndex(idxFile)[id]).ok

\* C19: NewBinaryCollectionReader returns a reader only for a file whose header
\* has the magic number 0x43414348 and the version 1.
C19_ReaderChecksMagicAndVersion ==
    (ret.op = "NewBinaryCollectionReader" /\ ret.err = "") =>
       /\ SubSeq(dataFile.bytes, 1, 4) = LittleEndian(CollectionMagic, 4)
       /\ SubSeq(dataFile.bytes, 5, 6) = LittleEndian(BinaryFormatVersion, 2)

\* C20: after a SaveCollection the ids of the offset index collection.idx are the
\* ids of the collection in memory.
C20_OffsetIndexHasStoredIds ==
    (ret.op = "SaveCollection" /\ ret.err = "") =>
       {r.ID : r \in idxFile.records} = DOMAIN Documents

\* C21: after any number of SaveCollection calls every entry of the offset index
\* has an offset of at least HeaderSize, the 20-byte header of its record stands
\* in collection.data at that offset, and its checksum is the CRC32 of the
\* CompressedSize payload bytes that follow the header.
C21_OffsetIndexEntriesAreExact ==
    (ret.op = "SaveCollection" /\ ret.err = "") =>
       \A r \in idxFile.records :
          LET e == r.Entry
              got == ReadAt(dataFile.bytes, e.Offset, DocEntryHeaderSize + e.CompressedSize)
          IN  /\ e.Offset >= HeaderSize
              /\ got.ok
              /\ SubSeq(got.buf, 1, DocEntryHeaderSize)
                    = LittleEndian(e.Offset, 8) \o LittleEndian(e.Size, 4)
                      \o LittleEndian(e.CompressedSize, 4) \o ChecksumBytes(e.Checksum)
              /\ ChecksumIEEE(SubSeq(got.buf, DocEntryHeaderSize + 1, Len(got.buf)))
                    = e.Checksum

\* C22: replaying the log a second time changes nothing: from the manager the
\* files load into, a replay of the log applied to the result of a replay of the
\* same log returns that result again.
C22_ReplayIsIdempotent ==
    LET loaded == LoadDatabases(metaFile, dataFile, idxFile, indexFiles)
    IN  loaded.err = "" =>
           \A once \in Replay(loaded.dm, wal) :
              once.err = "" => \A twice \in Replay(once.dm, wal) : twice = once

\* C23: when an insert with an id given by the caller has been logged and made
\* and the process stops before any SaveCollection follows it, LoadAllDatabases
\* at the restart returns no error and a collection that holds the inserted
\* document.
C23_LoggedInsertSurvivesCrash ==
    [][(/\ ret.op = "Insert" /\ ret.err = "" /\ ret.id \in UserIDs
        /\ ret'.op = "LoadAllDatabases")
          => /\ ret'.err = ""
             /\ ret.id \in DOMAIN Documents'
             /\ Documents'[ret.id] = Documents[ret.id]]_vars

\* C24: when a checkpoint has just been recorded and every logged call has been
\* made, the saved files alone hold what the calls before the checkpoint offset
\* did: LoadAllDatabases after a crash at this moment returns no error and the
\* documents of the collection in memory.
C24_CheckpointCoversSavedOperations ==
    (ret.op = "Checkpoint" /\ pc = EmptyMap) =>
       \A r \in LoadAllDatabases(metaFile, dataFile, idxFile, indexFiles, wal) :
          r.err = "" /\ r.dm.c.Documents = Documents

\* C25: the records of the log stand in the order in which the calls they log
\* took effect on the collection: when every logged call has been made, a replay
\* of the whole log on an empty manager returns the documents of the collection
\* in memory.
C25_LogOrderIsEffectOrder ==
    pc = EmptyMap =>
       \A r \in ReplayFrom(NewDatabaseManager, wal.entries) :
          r.err = "" /\ r.dm.c.Documents = Documents

\* What the call of frame f returns and leaves behind when it is made in one
\* step on the collection f.snap: the outcomes [err, c, result].
AtomicOutcomes(f) ==
    LET doc == f.call.doc
        op == f.call.op
        write(r) == [err |-> r.err, c |-> r.c, result |-> <<>>]
        read(err, result) == [err |-> err, c |-> f.snap, result |-> result]
    IN  CASE op = "Insert" -> {write(InsertResult(f.snap, doc, f.id))}
          [] op = "Update" -> {write(UpdateResult(f.snap, doc.ID, PresentData(doc)))}
          [] op = "Delete" -> {write(DeleteResult(f.snap, doc.ID))}
          [] op = "CreateIndex" ->
                {write(r) : r \in CreateIndexResults(f.snap, f.call.name, "f")}
          [] op = "DropIndex" -> {write(DropIndexResult(f.snap, f.call.name))}
          [] op = "Find" ->
                {read("", r) : r \in FindOutcomes(f.snap.Documents, f.snap.Indexes,
                                                  f.call.query)}
          [] op = "FindByID" ->
                {read(IF doc.ID \in DOMAIN f.snap.Documents THEN "" ELSE "notfound",
                      FindByIDResult(f.snap.Documents, doc.ID))}
          [] op = "Count" -> {read("", <<Cardinality(DOMAIN f.snap.Documents)>>)}

\* Two calls that were in progress at the same time.
Overlap(t, u) == <<t, pc[t].n>> \in pc[u].during \/ <<u, pc[u].n>> \in pc[t].during
\* Two threads have returned from overlapping Inserts of the same given id, of
\* documents the schema accepts.
SameIdInserts(t, u) ==
    /\ t # u /\ Returned(t) /\ Returned(u) /\ Overlap(t, u)
    /\ pc[t].call.op = "Insert" /\ pc[u].call.op = "Insert"
    /\ pc[t].call.doc.ID # EmptyID /\ pc[t].call.doc.ID = pc[u].call.doc.ID
    /\ ValidateDocument(Schema, pc[t].call.doc) = {}
    /\ ValidateDocument(Schema, pc[u].call.doc) = {}

\* C26: the calls on one collection are linearizable. Every call returns, and
\* leaves the collection, as if it had been made in one step at the moment it
\* took the collection's lock; of two overlapping Inserts of an id that was not
\* stored exactly one succeeds; and a thread that holds the collection's lock
\* for reading finds every stored document in the _id index.
C26_CallsAreLinearizable ==
    /\ [](\A t \in DOMAIN pc :
            (InCall(t) /\ t \in locks["c"].r) =>
               \A id \in DOMAIN Documents :
                  IndexFind(Indexes["_id"], Str(id)) = <<id, TRUE>>)
    /\ [](\A t, u \in DOMAIN pc :
            SameIdInserts(t, u) =>
               IF pc[t].had /\ pc[u].had
               THEN pc[t].err = "exists" /\ pc[u].err = "exists"
               ELSE (pc[t].err = "") # (pc[u].err = ""))
    /\ [][\A t \in DOMAIN pc :
            (InCall(t) /\ ~InCall(t)') =>
               [err |-> pc[t].err, c |-> Live, result |-> pc[t].result]
                  \in AtomicOutcomes(pc[t])]_vars

C26_Witness ==
    \E t, u \in DOMAIN pc :
       /\ SameIdInserts(t, u)
       /\ pc[t].err = "" /\ pc[u].err = "exists" /\ ~pc[t].had
       /\ pc[t].call.doc # pc[u].call.doc

\* C27: a thread that asks for a mutex holds only mutexes that come before it
\* in the order database manager, database, collection, index, WAL; and while
\* any thread is inside a call of the collection, the database, a save or a
\* checkpoint, some thread can take a step: the calls never deadlock.
Rank(m) ==
    CASE m = "dm" -> 1 [] m = "db" -> 2 [] m = "c" -> 3 [] m = "idx" -> 4 [] m = "wal" -> 5
\* The thread is inside Lock() or RLock() and the mutex cannot be given to it.
Waits(t) ==
    /\ InCall(t)
    /\ \/ Instr(t)[1] = "Lock" /\ ~CanLock(locks[Instr(t)[2]])
       \/ Instr(t)[1] = "RLock" /\ ~CanRLock(locks[Instr(t)[2]])
C27_LocksAreTakenInOrder ==
    /\ \A t \in DOMAIN pc :
          (InCall(t) /\ Instr(t)[1] \in {"Lock", "RLock"}) =>
             \A m \in Mutexes : Holds(t, m) => Rank(m) < Rank(Instr(t)[2])
    /\ (\E t \in DOMAIN pc : InCall(t)) => \E t \in DOMAIN pc : InCall(t) /\ ~Waits(t)
\* SaveAllDatabases holds all four mutexes of its path while a writer of the
\* collection waits.
C27_Witness ==
    \E t, u \in DOMAIN pc :
       /\ \A m \in {"dm", "db", "c", "idx"} : Holds(t, m)
       /\ u \in locks["c"].q

\* C28: a request whose context is already cancelled when its handler is
\* called returns an error, leaves the collection as it was and writes no file
\* (the collection's lock is taken inside the method the handler calls, so a
\* handler that returns before the call takes no lock).
Tools == {"insert_document", "update_document", "delete_document"}
C28_CancelledRequestDoesNothing ==
    [][(ctx' = "cancelled" /\ ret'.op \in Tools)
          => /\ ret'.err # ""
             /\ UNCHANGED <<Documents, Indexes, Schema>>
             /\ UNCHANGED <<metaFile, dataFile, idxFile, indexFiles, saves>>]_vars

\* C29: no stored document's data holds the key _id, and every stored document
\* keeps the id it was stored under.
HasKey(doc, key) == key \in DOMAIN doc.Data /\ doc.Data[key] # Absent
C29_DataNeverHoldsId ==
    /\ [](\A id \in DOMAIN Documents : ~HasKey(Documents[id], "_id"))
    /\ [][\A id \in DOMAIN Documents \cap DOMAIN Documents' :
             Documents'[id].ID = Documents[id].ID /\ Documents[id].ID = id]_vars

\* C30: CreateCollection of a name the database holds, or with a schema that
\* has no fields, an empty field name, a field named _id or a type that is not
\* one of the six, returns an error and leaves the collections as they were; so
\* does DropCollection of a name the database does not hold.
InvalidSchema(s) ==
    /\ ~s.nil
    /\ \/ DOMAIN s.Fields = {}
       \/ "" \in DOMAIN s.Fields
       \/ "_id" \in DOMAIN s.Fields
       \/ \E k \in DOMAIN s.Fields : s.Fields[k].Type \notin FieldTypes
Rejected == ret'.err # "" /\ Collections' = Collections /\ UNCHANGED <<Documents, Indexes, Schema>>
C30_BadCreateAndDropAreRejected ==
    [][/\ (/\ ret'.op = "CreateCollection" /\ ret' # ret
           /\ \/ ret'.result[1] \in DOMAIN Collections
              \/ InvalidSchema(ret'.result[2])) => Rejected
       /\ (/\ ret'.op = "DropCollection" /\ ret' # ret
           /\ ret'.result[1] \notin DOMAIN Collections) => Rejected]_vars
\* The database holds "c", and a CreateCollection with a schema whose field is
\* named _id has been rejected.
C30_Witness ==
    /\ ret.op = "CreateCollection" /\ ret.err = "reserved"
    /\ ret.result[1] \notin DOMAIN Collections
    /\ "c" \in DOMAIN Collections

\* C31: a collection owns its stored documents. An assignment the caller makes
\* to a field of the document it handed to Insert, or of a document that
\* FindByID or Find returned, leaves the stored documents, the indexes and the
\* schema as they were.
C31_CallerCannotChangeStoredDocuments ==
    [][ret'.op \in {"SetField", "SetCopyField"} => UNCHANGED <<Documents, Indexes, Schema>>]_vars

\* C32: after a successful Insert or Update of document B, every index on a
\* field B has maps the stringified value of that field to B's id, and
\* Index.Find of the value returns B's id, whichever other documents hold a
\* value that prints the same (the last writer wins).
Written(id) ==
    \A n \in DOMAIN Indexes :
       LET got == GetValue(Documents[id], Indexes[n].FieldName)
       IN  got[2] => /\ Stringify(got[1]) \in DOMAIN Indexes[n].Data
                     /\ Indexes[n].Data[Stringify(got[1])] = id
                     /\ IndexFind(Indexes[n], got[1]) = <<id, TRUE>>
C32_LastWriterWins ==
    (ret.op \in {"Insert", "Update"} /\ ret.err = "") => Written(ret.id)
\* B was updated to a value that prints like the value of another stored
\* document A, and a user index on the field exists.
C32_Witness ==
    /\ ret.op = "Update" /\ ret.err = ""
    /\ \E n \in DOMAIN Indexes, a \in DOMAIN Documents :
          /\ n # "_id" /\ a # ret.id
          /\ GetValue(Documents[a], Indexes[n].FieldName)[2]
          /\ GetValue(Documents[ret.id], Indexes[n].FieldName)[2]
          /\ GetValue(Documents[a], Indexes[n].FieldName)[1]
                # GetValue(Documents[ret.id], Indexes[n].FieldName)[1]
          /\ Stringify(GetValue(Documents[a], Indexes[n].FieldName)[1])
                = Stringify(GetValue(Documents[ret.id], Indexes[n].FieldName)[1])

\* C33: the collection a successful LoadCollection returns has indexes that
\* agree with its documents: the _id index finds every loaded document, and
\* every entry of every loaded index is the id of a loaded document.
C33_LoadedIndexesAgree ==
    (ret.op = "LoadCollection" /\ ret.err = "") =>
       LET loaded == ret.result[1]
       IN  /\ \A id \in DOMAIN loaded.Documents :
                 IndexFind(loaded.Indexes["_id"], Str(id)) = <<id, TRUE>>
           /\ \A n \in DOMAIN loaded.Indexes :
                 \A key \in DOMAIN loaded.Indexes[n].Data :
                    loaded.Indexes[n].Data[key] \in DOMAIN loaded.Documents

\* C34: LoadCollection of a collection whose metadata says binary and whose
\* collection.data does not exist returns no error and an empty collection
\* with its _id index.
C34_MissingDataFileLoadsEmpty ==
    (/\ ret.op = "LoadCollection"
     /\ metaFile.exists /\ metaFile.Format = "binary" /\ ~dataFile.exists) =>
       /\ ret.err = ""
       /\ ret.result[1].Documents = EmptyMap
       /\ "_id" \in DOMAIN ret.result[1].Indexes

\* C35: after any number of saves the first 8 bytes of collection.data are the
\* header (magic, version 1, flags 1), and a reader opens the file and reads
\* every document the offset index names.
C35_HeaderSurvivesEverySave ==
    dataFile.exists =>
       /\ Len(dataFile.bytes) >= HeaderSize
       /\ SubSeq(dataFile.bytes, 1, HeaderSize)
             = LittleEndian(CollectionMagic, 4) \o LittleEndian(BinaryFormatVersion, 2)
               \o LittleEndian(1, 2)
       /\ NewBinaryCollectionReader(dataFile, idxFile).err = ""
       /\ LoadCollectionResult(metaFile, dataFile, idxFile, indexFiles).err = ""

\* C36: the database LoadDatabase returns right after a SaveDatabase holds the
\* collections that were in memory at that save, no more and no fewer; a
\* collection dropped before the save is not among them.
C36_LoadedNamesAreSavedNames ==
    [][(/\ ret.op = "SaveDatabase" /\ ret.err = ""
        /\ ret'.op = "LoadDatabase" /\ ret'.err = "")
          => ret'.result[1] = DOMAIN Collections]_vars

\* C37: the collection LoadCollection returns right after a SaveCollection has
\* the indexes that save recorded in collection.meta.json, no more and no
\* fewer; an index dropped before the save is not among them.
C37_LoadedIndexesAreSavedIndexes ==
    [][(/\ ret.op = "SaveCollection" /\ ret.err = ""
        /\ ret'.op = "LoadCollection" /\ ret'.err = "")
          => DOMAIN ret'.result[1].Indexes = DOMAIN metaFile.Indexes]_vars

\* C38: in every state reached by successful and failed Insert, Update, Delete
\* and CreateIndex calls, every entry of every index maps to a stored document
\* whose current stringified value of the index's field is the entry's key.
C38_IndexEntriesAreSound ==
    \A n \in DOMAIN Indexes : \A k \in DOMAIN Indexes[n].Data :
        /\ Indexes[n].Data[k] \in DOMAIN Documents
        /\ LET got == GetValue(Documents[Indexes[n].Data[k]], Indexes[n].FieldName)
           IN  got[2] /\ Stringify(got[1]) = k

\* C39: when a mutating tool handler (insert_document, update_document,
\* delete_document, create_index, create_collection) returns an error, the
\* database in memory is as it was before the call: a change whose
\* SaveCollection or SaveDatabase failed is not left for later reads.
MutatingTools ==
    {"insert_document", "update_document", "delete_document", "create_index",
     "create_collection"}
C39_FailedHandlerChangesNothing ==
    [][(ret'.op \in MutatingTools /\ ret'.err # "")
          => UNCHANGED <<Documents, Indexes, Schema, Collections>>]_vars

\* C40: two SaveCollection calls on the same collection that run at the same
\* time do not interleave their writes: when both have returned,
\* collection.data and collection.idx are what the two calls leave when one
\* runs after the other.
C40_ConcurrentSavesAreSerial ==
    (\A t \in Savers : pc[t].at = "done")
       => [data |-> dataFile, idx |-> idxFile] \in TwoSavesInTurn(Documents)

====
